---- MODULE Spec2Model ----
(***************************************************************************)
(* Chinese-font remediation pipeline of 3DprintingDigitalTwin              *)
(* (src/utils/plot_config.py and the modules it drives).                   *)
(*                                                                         *)
(* State: the host toolkit's in-process font registry, the font files on   *)
(* disk, the toolkit's on-disk cache directory, the live rcParams object,  *)
(* the FontInstaller and MatplotlibCacheCleaner objects a caller holds,    *)
(* the dictionary of the ConfigLoader of src/config/config_loader.py, and  *)
(* a log of the last public call.  Every public entry point is one         *)
(* action; what the operating system, the network and the toolkit answer   *)
(* is drawn with \E.                                                       *)
(***************************************************************************)
EXTENDS Integers, Sequences, FiniteSets, TLC

VARIABLES registry, disk, cache, rc, last, calls, installer, cache_cleaner, config

vars == <<registry, disk, cache, rc, last, calls, installer, cache_cleaner,
          config>>

(***************************************************************************)
(* Bounds of the model.                                                    *)
(***************************************************************************)
\* number of public calls explored in one behaviour
MaxCalls == 2
\* number of distinct enumeration orders list(set(...)) is explored with
NumSeeds == 2

(***************************************************************************)
(* Font family names.  TLC strings are atomic, so a name is paired with    *)
(* its characters for the substring tests of the code.                     *)
(***************************************************************************)
\* Python's None
NoFont == "None"

\* the families a registry or a disk of the model may hold, in a fixed
\* reference order (used only to derive enumeration orders)
FamilyUniverse ==
  << "Noto Sans CJK JP", "Noto Serif CJK JP", "Arial",
     "DejaVu Sans", "WenQuanYi Zen Hei", "SimHei" >>

Families == { FamilyUniverse[i] : i \in DOMAIN FamilyUniverse }

Chars(n) ==
  CASE n = "SimHei" -> <<"S","i","m","H","e","i">>
    [] n = "WenQuanYi Zen Hei" ->
         <<"W","e","n","Q","u","a","n","Y","i"," ","Z","e","n"," ","H","e","i">>
    [] n = "DejaVu Sans" -> <<"D","e","j","a","V","u"," ","S","a","n","s">>
    [] n = "Arial" -> <<"A","r","i","a","l">>
    [] n = "Noto Sans CJK JP" ->
         <<"N","o","t","o"," ","S","a","n","s"," ","C","J","K"," ","J","P">>
    [] n = "Noto Serif CJK JP" ->
         <<"N","o","t","o"," ","S","e","r","i","f"," ","C","J","K"," ","J","P">>
    [] OTHER -> << >>

UpperToLower ==
  "A" :> "a" @@ "B" :> "b" @@ "C" :> "c" @@ "D" :> "d" @@ "E" :> "e" @@
  "F" :> "f" @@ "G" :> "g" @@ "H" :> "h" @@ "I" :> "i" @@ "J" :> "j" @@
  "K" :> "k" @@ "L" :> "l" @@ "M" :> "m" @@ "N" :> "n" @@ "O" :> "o" @@
  "P" :> "p" @@ "Q" :> "q" @@ "R" :> "r" @@ "S" :> "s" @@ "T" :> "t" @@
  "U" :> "u" @@ "V" :> "v" @@ "W" :> "w" @@ "X" :> "x" @@ "Y" :> "y" @@
  "Z" :> "z"

\* str.lower()
Lower(s) ==
  [i \in DOMAIN s |-> IF s[i] \in DOMAIN UpperToLower THEN UpperToLower[s[i]] ELSE s[i]]

\* Python's `sub in s` on strings
Contains(sub, s) ==
  \E i \in 0..(Len(s) - Len(sub)) :
     \A j \in 1..Len(sub) : s[i + j] = sub[j]

(***************************************************************************)
(* plot_config.py: PREFERRED_FONTS, get_available_fonts,                   *)
(* detect_chinese_font, list_available_chinese_fonts                       *)
(***************************************************************************)
PREFERRED_FONTS ==
  << "SimHei", "Microsoft YaHei", "SimSun", "KaiTi", "FangSong",
     "WenQuanYi Zen Hei", "Noto Sans CJK SC", "DejaVu Sans" >>

\* the two generic markers of detect_chinese_font; the second one is the
\* two-character string U+4E2D U+6587
MarkerCJK == <<"C","J","K">>
MarkerZhongWen == <<"U+4E2D","U+6587">>

\* FamilyUniverse rotated left by k places
Rotated(k) ==
  [i \in DOMAIN FamilyUniverse |->
     FamilyUniverse[((i - 1 + k) % Len(FamilyUniverse)) + 1]]

\* the enumeration order of each seed, and the marker test of each family,
\* tabulated once
SeedOrder == [k \in 0..(NumSeeds - 1) |-> Rotated(k)]

HasMarker ==
  [n \in Families |-> Contains(MarkerCJK, Chars(n))
                      \/ Contains(MarkerZhongWen, Chars(n))]

\* the members of set S in the order of sequence order
RECURSIVE FilterSeq(_, _)
FilterSeq(order, S) ==
  IF order = << >> THEN << >>
  ELSE IF Head(order) \in S
       THEN <<Head(order)>> \o FilterSeq(Tail(order), S)
       ELSE FilterSeq(Tail(order), S)

\* get_available_fonts(): list(set(names)); a set of strings is listed in
\* an order that depends on the interpreter's hash seed, here `seed`.
\* ok = FALSE is the registry being inaccessible (the except branch).
get_available_fonts(reg, seed, ok) ==
  IF ok THEN FilterSeq(SeedOrder[seed], reg) ELSE << >>

\* x in list
InList(x, lst) == \E i \in DOMAIN lst : lst[i] = x

\* first element of lst satisfying the marker test, else None
RECURSIVE FirstWithMarker(_)
FirstWithMarker(lst) ==
  IF lst = << >> THEN NoFont
  ELSE IF HasMarker[Head(lst)]
       THEN Head(lst)
       ELSE FirstWithMarker(Tail(lst))

\* first element of prefs that is in lst, else None
RECURSIVE FirstPreferred(_, _)
FirstPreferred(prefs, lst) ==
  IF prefs = << >> THEN NoFont
  ELSE IF InList(Head(prefs), lst) THEN Head(prefs)
       ELSE FirstPreferred(Tail(prefs), lst)

\* a plausible slip: the marker scan runs first
detect_marker_first(available_fonts) ==
  IF FirstWithMarker(available_fonts) # NoFont
  THEN FirstWithMarker(available_fonts)
  ELSE FirstPreferred(PREFERRED_FONTS, available_fonts)

\* detect_chinese_font(), over the list get_available_fonts() returned
detect_chinese_font(available_fonts) ==
  IF FirstPreferred(PREFERRED_FONTS, available_fonts) # NoFont
  THEN FirstPreferred(PREFERRED_FONTS, available_fonts)
  ELSE FirstWithMarker(available_fonts)

\* list_available_chinese_fonts(): PREFERRED_FONTS filtered, in list order
RECURSIVE PreferredIn(_, _)
PreferredIn(prefs, lst) ==
  IF prefs = << >> THEN << >>
  ELSE IF InList(Head(prefs), lst)
       THEN <<Head(prefs)>> \o PreferredIn(Tail(prefs), lst)
       ELSE PreferredIn(Tail(prefs), lst)

list_available_chinese_fonts(available_fonts) ==
  PreferredIn(PREFERRED_FONTS, available_fonts)

(***************************************************************************)
(* clear_matplotlib_cache.py: verify_font_cache's notion of a Chinese font *)
(***************************************************************************)
chinese_keywords ==
  << <<"s","i","m","h","e","i">>,
     <<"s","i","m","s","u","n">>,
     <<"k","a","i","t","i">>,
     <<"f","a","n","g","s","o","n","g">>,
     <<"y","a","h","e","i">>,
     <<"w","e","n","q","u","a","n","y","i">>,
     <<"n","o","t","o",".","*","c","j","k">>,
     <<"s","o","u","r","c","e",".","*","h","a","n">>,
     <<"c","j","k">> >>

\* the test of verify_font_cache's loop, some keyword in font.lower(),
\* tabulated once
KeywordMatch ==
  [n \in Families |->
     \E k \in DOMAIN chinese_keywords :
        Contains(chinese_keywords[k], Lower(Chars(n)))]

IsChineseFamily(n) == KeywordMatch[n]

(***************************************************************************)
(* The live configuration object (matplotlib.rcParams), as a record of the *)
(* keys the module writes and reads.                                       *)
(***************************************************************************)
\* plt.rcdefaults(): the toolkit's defaults (named sizes resolved to points:
\* medium = 10, large = 12)
DefaultRc ==
  [ sans_serif       |-> <<"DejaVu Sans", "Bitstream Vera Sans">>,
    font_family      |-> <<"sans-serif">>,
    font_serif       |-> <<"DejaVu Serif">>,
    font_size        |-> 10,
    axes_labelsize   |-> 10,
    axes_titlesize   |-> 12,
    xtick_labelsize  |-> 10,
    ytick_labelsize  |-> 10,
    legend_fontsize  |-> 10,
    figure_titlesize |-> 12,
    unicode_minus    |-> TRUE,
    axes_grid        |-> FALSE ]

\* a plausible slip: the font is appended instead of put first
basic_configure_appends(r, font_name, font_size) ==
  [ r EXCEPT
      !.sans_serif       = r.sans_serif \o <<font_name>>,
      !.font_size        = font_size,
      !.axes_labelsize   = font_size,
      !.axes_titlesize   = font_size + 2,
      !.xtick_labelsize  = font_size - 1,
      !.ytick_labelsize  = font_size - 1,
      !.legend_fontsize  = font_size - 1,
      !.figure_titlesize = font_size + 4,
      !.unicode_minus    = FALSE ]

\* _basic_configure_matplotlib(font_name, font_size)
_basic_configure_matplotlib(r, font_name, font_size) ==
  [ r EXCEPT
      !.sans_serif       = <<font_name>> \o r.sans_serif,
      !.font_size        = font_size,
      !.axes_labelsize   = font_size,
      !.axes_titlesize   = font_size + 2,
      !.xtick_labelsize  = font_size - 1,
      !.ytick_labelsize  = font_size - 1,
      !.legend_fontsize  = font_size - 1,
      !.figure_titlesize = font_size + 4,
      !.unicode_minus    = FALSE ]

\* _deep_configure_matplotlib(font_name, font_size): the basic configuration,
\* then the deep keys (those of the record)
_deep_configure_matplotlib(r, font_name, font_size) ==
  LET b == _basic_configure_matplotlib(r, font_name, font_size) IN
  [ b EXCEPT
      !.font_family      = <<"sans-serif", "DejaVu Sans">>,
      !.sans_serif       = << font_name, "SimHei", "Microsoft YaHei", "SimSun",
                              "DejaVu Sans", "Liberation Sans", "Arial" >>
                           \o b.sans_serif,
      !.font_size        = font_size,
      !.axes_titlesize   = font_size + 2,
      !.axes_labelsize   = font_size,
      !.xtick_labelsize  = font_size - 1,
      !.ytick_labelsize  = font_size - 1,
      !.legend_fontsize  = font_size - 1,
      !.figure_titlesize = font_size + 4,
      !.font_serif       = <<font_name, "Times New Roman", "DejaVu Serif">>,
      !.unicode_minus    = FALSE,
      !.axes_grid        = TRUE ]

(***************************************************************************)
(* clear_matplotlib_cache.py: MatplotlibCacheCleaner.  The cache           *)
(* directories on disk are a sequence of records, one per directory, by    *)
(* what the directory holds:                                               *)
(*   exists, mode      "rw", "ro" (entries cannot be removed), "none"      *)
(*                     (the directory cannot be listed)                    *)
(*   fontlists         the number of fontlist-v*.json files                *)
(*   fontManager       the fontManager.py file                             *)
(*   fontdirs          the number of ttf / afm / pdfcorefonts directories  *)
(*   font_named_files  the number of regular files with such a name        *)
(*   others            the number of other entries                         *)
(*   backups           the backup siblings made so far                     *)
(*   backup_of_mtime   a sibling <dir>_backup_<int(mtime of dir)> exists   *)
(***************************************************************************)
\* Python's exception classes, as far as the handlers of these modules
\* tell them apart: isinstance(exc, cls)
OSErrors ==
  {"OSError", "PermissionError", "FileNotFoundError", "FileExistsError",
   "URLError"}

IsInstance(exc, cls) ==
  \/ exc = cls
  \/ cls = "Exception"
  \/ cls = "OSError" /\ exc \in OSErrors

\* an except clause with the classes `handlers` catches exc
Caught(exc, handlers) == \E cls \in handlers : IsInstance(exc, cls)

\* the directory matplotlib.get_configdir() names, and the conventional
\* locations of the fallback, as indexes of the directories on disk
ConfigDir == 1
ConventionalDirs == {2}

\* _find_cache_dirs(): the dirname of every fontlist-v*.json the glob finds
\* in the configuration directory, without duplicates.  When asking the
\* toolkit fails, the handler builds possible_paths, whose third element
\* tempfile.gettempdir() / "matplotlib" divides a str by a str: TypeError
\* leaves the handler and the constructor.
_find_cache_dirs(fs, configdir) ==
  IF configdir = "fails"
  THEN [raised |-> TRUE, exc |-> "TypeError", dirs |-> << >>]
  ELSE [raised |-> FALSE, exc |-> "none",
        dirs |-> IF /\ fs[ConfigDir].exists
                    /\ fs[ConfigDir].mode # "none"
                    /\ fs[ConfigDir].fontlists > 0
                 THEN <<ConfigDir>> ELSE << >>]

\* sizes of the entries of a cache directory, by kind (a directory's size
\* is what _get_dir_size sums up)
EntrySize == [fontlist |-> 3, fontManager |-> 1, fontdir |-> 5, other |-> 2]

Repeat(x, n) == [i \in 1..n |-> x]

\* os.listdir(cache_dir) as entries [name, size, is_dir]
Listing(d) ==
  Repeat([name |-> "fontlist-v.json", size |-> EntrySize.fontlist,
          is_dir |-> FALSE], d.fontlists)
  \o (IF d.fontManager
      THEN <<[name |-> "fontManager.py", size |-> EntrySize.fontManager,
              is_dir |-> FALSE]>>
      ELSE << >>)
  \o Repeat([name |-> "ttf", size |-> EntrySize.fontdir, is_dir |-> TRUE],
            d.fontdirs)
  \o Repeat([name |-> "afm", size |-> EntrySize.other, is_dir |-> FALSE],
            d.font_named_files)
  \o Repeat([name |-> "tex.cache", size |-> EntrySize.other, is_dir |-> FALSE],
            d.others)

\* a plausible slip: the size of a subdirectory is listed but not added
RECURSIVE AddSizes_files_only(_, _)
AddSizes_files_only(total, entries) ==
  IF entries = << >> THEN total
  ELSE AddSizes_files_only(
         IF Head(entries).is_dir THEN total ELSE total + Head(entries).size,
         Tail(entries))

\* info['total_size'] += size, entry by entry
RECURSIVE AddSizes(_, _)
AddSizes(total, entries) ==
  IF entries = << >> THEN total
  ELSE AddSizes(total + Head(entries).size, Tail(entries))

\* the loop of get_cache_info over cache_dirs: a directory that cannot be
\* listed adds a recommendation and no entry
RECURSIVE InspectDirs(_, _, _)
InspectDirs(fs, dirs, info) ==
  IF dirs = << >> THEN info
  ELSE LET d == fs[Head(dirs)] IN
       IF ~d.exists \/ d.mode = "none"
       THEN InspectDirs(fs, Tail(dirs),
              [info EXCEPT !.recommendations = @ \o <<"cannot_access">>])
       ELSE InspectDirs(fs, Tail(dirs),
              [info EXCEPT !.cache_files = @ \o Listing(d),
                           !.total_size = AddSizes(@, Listing(d))])

\* get_cache_info(): the CacheInfo, and the cleaner and the directories as
\* the call leaves them
get_cache_info(fs, cleaner) ==
  LET info0 == [cache_dirs |-> cleaner.cache_dirs, cache_files |-> << >>,
                total_size |-> 0, cache_count |-> 0, recommendations |-> << >>]
      info1 == InspectDirs(fs, cleaner.cache_dirs, info0)
      info2 == [info1 EXCEPT !.cache_count = Len(info1.cache_files)]
  IN  [ info |-> [info2 EXCEPT !.recommendations =
                     @ \o (IF info2.cache_count > 0 THEN <<"clear_cache">>
                           ELSE <<"no_cache_files">>)],
        cleaner |-> cleaner,
        fs |-> fs ]

\* a plausible slip: the deletion stops after the first font-list file
ClearDir_removes_one(d, backup, same_second) ==
  LET matched == d.fontlists > 0 \/ d.fontManager \/ d.fontdirs > 0
      d1 == IF backup
            THEN [d EXCEPT !.backups = @ + 1, !.backup_of_mtime = TRUE]
            ELSE d
  IN  IF ~d.exists
      THEN [exc |-> "FileNotFoundError", dir |-> d]
      ELSE IF backup /\ d.mode = "none"
      THEN [exc |-> "PermissionError", dir |-> d]
      ELSE IF backup /\ d.backup_of_mtime
      THEN [exc |-> "FileExistsError", dir |-> d]
      ELSE IF d.mode = "none"
      THEN [exc |-> "PermissionError", dir |-> d1]
      ELSE IF ~matched
      THEN [exc |-> "none", dir |-> d1]
      ELSE IF d.mode = "ro"
      THEN [exc |-> "PermissionError", dir |-> d1]
      ELSE [ exc |-> "none",
             dir |-> [d1 EXCEPT !.fontlists = IF @ > 0 THEN @ - 1 ELSE 0,
                                !.fontManager = FALSE,
                                !.fontdirs = 0,
                                !.backup_of_mtime = @ /\ same_second] ]

\* a plausible slip: everything in the cache directory is removed
ClearDir_removes_everything(d, backup, same_second) ==
  LET matched == d.fontlists > 0 \/ d.fontManager \/ d.fontdirs > 0
      d1 == IF backup
            THEN [d EXCEPT !.backups = @ + 1, !.backup_of_mtime = TRUE]
            ELSE d
  IN  IF ~d.exists
      THEN [exc |-> "FileNotFoundError", dir |-> d]
      ELSE IF backup /\ d.mode = "none"
      THEN [exc |-> "PermissionError", dir |-> d]
      ELSE IF backup /\ d.backup_of_mtime
      THEN [exc |-> "FileExistsError", dir |-> d]
      ELSE IF d.mode = "none"
      THEN [exc |-> "PermissionError", dir |-> d1]
      ELSE IF ~matched
      THEN [exc |-> "none", dir |-> d1]
      ELSE IF d.mode = "ro"
      THEN [exc |-> "PermissionError", dir |-> d1]
      ELSE [ exc |-> "none",
             dir |-> [d1 EXCEPT !.fontlists = 0, !.fontManager = FALSE,
                                !.fontdirs = 0, !.font_named_files = 0,
                                !.others = 0,
                                !.backup_of_mtime = @ /\ same_second] ]

\* the body of the try of clear_font_cache for one directory d: the exception
\* that leaves it ("none" when it completes) and the directory afterwards.
\* same_second: the deletion happens within the second of the directory's
\* earlier modification time, so int(mtime) does not change.
ClearDir(d, backup, same_second) ==
  LET matched == d.fontlists > 0 \/ d.fontManager \/ d.fontdirs > 0
      d1 == IF backup
            THEN [d EXCEPT !.backups = @ + 1, !.backup_of_mtime = TRUE]
            ELSE d
  IN  IF ~d.exists
      THEN [exc |-> "FileNotFoundError", dir |-> d]   \* getmtime or listdir
      ELSE IF backup /\ d.mode = "none"
      THEN [exc |-> "PermissionError", dir |-> d]     \* copytree lists first
      ELSE IF backup /\ d.backup_of_mtime
      THEN [exc |-> "FileExistsError", dir |-> d]     \* copytree makes dst
      ELSE IF d.mode = "none"
      THEN [exc |-> "PermissionError", dir |-> d1]    \* listdir
      ELSE IF ~matched
      THEN [exc |-> "none", dir |-> d1]
      ELSE IF d.mode = "ro"
      THEN [exc |-> "PermissionError", dir |-> d1]    \* the first removal
      ELSE [ exc |-> "none",
             dir |-> [d1 EXCEPT !.fontlists = 0, !.fontManager = FALSE,
                                !.fontdirs = 0,
                                !.backup_of_mtime = @ /\ same_second] ]

\* a plausible slip: the loop is left at the first directory that fails
RECURSIVE ClearLoop_stops_at_failure(_, _, _, _, _)
ClearLoop_stops_at_failure(fs, dirs, backup, same_second, handlers) ==
  IF dirs = << >>
  THEN [raised |-> FALSE, success |-> TRUE, fs |-> fs, visited |-> << >>]
  ELSE LET i    == Head(dirs)
           r    == ClearDir(fs[i], backup, same_second)
           fs1  == [fs EXCEPT ![i] = r.dir]
           rest == ClearLoop_stops_at_failure(fs1, Tail(dirs), backup,
                                              same_second, handlers)
       IN  IF r.exc = "none"
           THEN [rest EXCEPT !.visited = <<i>> \o @]
           ELSE [raised |-> FALSE, success |-> FALSE, fs |-> fs1,
                 visited |-> <<i>>]

\* lines 156-191: for each directory the try body, and success = False in
\* the handler of (PermissionError, OSError)
RECURSIVE ClearLoop(_, _, _, _, _)
ClearLoop(fs, dirs, backup, same_second, handlers) ==
  IF dirs = << >>
  THEN [raised |-> FALSE, success |-> TRUE, fs |-> fs, visited |-> << >>]
  ELSE LET i    == Head(dirs)
           r    == ClearDir(fs[i], backup, same_second)
           fs1  == [fs EXCEPT ![i] = r.dir]
           rest == ClearLoop(fs1, Tail(dirs), backup, same_second, handlers)
       IN  IF r.exc = "none"
           THEN [rest EXCEPT !.visited = <<i>> \o @]
           ELSE IF Caught(r.exc, handlers)
           THEN [rest EXCEPT !.success = FALSE, !.visited = <<i>> \o @]
           ELSE [raised |-> TRUE, success |-> FALSE, fs |-> fs1,
                 visited |-> <<i>>]

\* clear_font_cache(backup) of a cleaner whose cache_dirs is `dirs`
clear_font_cache(fs, dirs, backup, same_second) ==
  ClearLoop(fs, dirs, backup, same_second, {"PermissionError", "OSError"})

\* rebuild_font_cache(force_rebuild=True): fm._rebuild() re-scans the disk
\* and writes the font-list file into the toolkit's directory when it can;
\* any exception gives False.  outcome: "ok", "ok_same_second" (the file is
\* written within the second of the directory's modification time), "fails"
rebuild_font_cache(reg, dsk, fs, outcome) ==
  LET d == fs[ConfigDir] IN
  IF outcome = "fails"
  THEN [success |-> FALSE, registry |-> reg, fs |-> fs]
  ELSE [ success |-> TRUE, registry |-> dsk,
         fs |-> IF d.exists /\ d.mode = "rw" /\ d.fontlists = 0
                THEN [fs EXCEPT ![ConfigDir] =
                        [d EXCEPT !.fontlists = 1,
                                  !.backup_of_mtime =
                                     @ /\ outcome = "ok_same_second"]]
                ELSE fs ]

\* verify_font_cache(font_name=None): the families of the registry that a
\* keyword matches; success when there is one.  outcome "fails" is an
\* exception in the try (the registry cannot be read)
verify_font_cache(reg, fs, cleaner, outcome) ==
  LET chinese == { f \in reg : IsChineseFamily(f) } IN
  IF outcome = "fails"
  THEN [success |-> FALSE, chinese_fonts |-> {}, cache_status |-> "error",
        steps |-> <<"verify">>]
  ELSE [success |-> chinese # {}, chinese_fonts |-> chinese,
        cache_status |-> "loaded",
        steps |-> <<"verify", "inspect">>]

\* a plausible slip: the reset gives up when the clear fails
full_reset_stops_after_clear(reg, dsk, fs, cleaner, backup, env) ==
  LET cl == clear_font_cache(fs, cleaner.cache_dirs, backup, env.same_second)
      rb == rebuild_font_cache(reg, dsk, cl.fs, env.rebuild)
      vf == verify_font_cache(rb.registry, rb.fs, cleaner, env.verify)
  IN  IF ~cl.success
      THEN [ret |-> FALSE, registry |-> reg, fs |-> cl.fs,
            success1 |-> FALSE, success2 |-> FALSE, steps |-> <<"clear">>]
      ELSE [ret |-> vf.success, registry |-> rb.registry, fs |-> rb.fs,
            success1 |-> cl.success, success2 |-> rb.success,
            steps |-> <<"clear", "rebuild">> \o vf.steps]

\* full_reset(backup): clear_font_cache, rebuild_font_cache, verify_font_cache
\* and the verification's success; steps are the methods called, in order
full_reset(reg, dsk, fs, cleaner, backup, env) ==
  LET cl == clear_font_cache(fs, cleaner.cache_dirs, backup, env.same_second)
      rb == rebuild_font_cache(reg, dsk, cl.fs, env.rebuild)
      vf == verify_font_cache(rb.registry, rb.fs, cleaner, env.verify)
  IN  [ret |-> vf.success, registry |-> rb.registry, fs |-> rb.fs,
       success1 |-> cl.success, success2 |-> rb.success,
       steps |-> <<"clear", "rebuild">> \o vf.steps]

(***************************************************************************)
(* font_installer.py: auto_install_chinese_fonts, by its outcome           *)
(***************************************************************************)
\* FontInstaller.detect_chinese_fonts(): the keywords of verify_font_cache
\* and five more, written in Chinese characters (here by code point)
installer_keywords ==
  chinese_keywords \o
  << <<"U+9ED1","U+4F53">>, <<"U+5B8B","U+4F53">>, <<"U+6977","U+4F53">>,
     <<"U+4EFF","U+5B8B">>, <<"U+5FAE","U+8F6F","U+96C5","U+9ED1">> >>

\* a font file counts as Chinese when its lower-cased name contains a
\* keyword; a file is named after its family here.  Tabulated once.
FileKeywordMatch ==
  [n \in Families |->
     \E k \in DOMAIN installer_keywords :
        Contains(installer_keywords[k], Lower(Chars(n)))]

font_file_is_chinese(n) == FileKeywordMatch[n]

\* FONT_DOWNLOADS: the family each key is saved as (name + '.ttf')
FONT_DOWNLOADS ==
  ("simhei" :> "SimHei") @@ ("wqy-zenhei" :> "WenQuanYi Zen Hei")

\* download_font(font_key): the downloaded file or None; every exception of
\* the download is caught.  dl is what urlretrieve does: "ok" or an exception
download_font(font_key, dl) ==
  IF font_key \notin DOMAIN FONT_DOWNLOADS THEN NoFont
  ELSE IF dl = "ok" THEN FONT_DOWNLOADS[font_key]
  ELSE NoFont

\* what the operating system answers during one install_font_* call:
\*   makedirs  os.makedirs (on Windows: the lookup of os.environ['WINDIR'])
\*   copy      shutil.copy2
\*   refresh   fc-cache on Linux, the gdi32/user32 calls on Windows
\* each "ok" or the exception raised
InstallIO ==
  { [makedirs |-> "ok", copy |-> "ok", refresh |-> "ok"],
    [makedirs |-> "PermissionError", copy |-> "ok", refresh |-> "ok"],
    [makedirs |-> "KeyError", copy |-> "ok", refresh |-> "ok"],
    [makedirs |-> "ok", copy |-> "PermissionError", refresh |-> "ok"],
    [makedirs |-> "ok", copy |-> "FileNotFoundError", refresh |-> "ok"],
    [makedirs |-> "ok", copy |-> "ok", refresh |-> "CalledProcessError"],
    [makedirs |-> "ok", copy |-> "ok", refresh |-> "FileNotFoundError"],
    [makedirs |-> "ok", copy |-> "ok", refresh |-> "AttributeError"] }

\* the body of an install_font_* routine: the directory, the copy, the
\* refresh (when the platform has one), inside try/except with `handlers`
install_body(dsk, font_file, io, has_refresh, handlers) ==
  LET exc == IF io.makedirs # "ok" THEN io.makedirs
             ELSE IF io.copy # "ok" THEN io.copy
             ELSE IF has_refresh /\ io.refresh # "ok" THEN io.refresh
             ELSE "none"
      copied == io.makedirs = "ok" /\ io.copy = "ok"
  IN  [ raised |-> exc # "none" /\ ~Caught(exc, handlers),
        exc    |-> exc,
        ret    |-> exc = "none",
        copied |-> copied,
        disk   |-> IF copied THEN dsk \cup {font_file} ELSE dsk ]

\* a plausible slip: only the failure of fc-cache is handled
install_font_linux_narrow_handler(dsk, font_file, io) ==
  install_body(dsk, font_file, io, TRUE, {"CalledProcessError"})

\* a plausible slip: the copy is undone when the refresh fails
install_font_linux_rolls_back(dsk, font_file, io) ==
  LET After(r) == IF r.copied /\ ~r.ret
                  THEN [r EXCEPT !.disk = dsk, !.copied = FALSE]
                  ELSE r
  IN  After(install_body(dsk, font_file, io, TRUE,
                         {"CalledProcessError", "Exception"}))

\* install_font_linux(font_file): except CalledProcessError, except Exception
install_font_linux(dsk, font_file, io) ==
  install_body(dsk, font_file, io, TRUE, {"CalledProcessError", "Exception"})

\* install_font_windows(font_file): except Exception
install_font_windows(dsk, font_file, io) ==
  install_body(dsk, font_file, io, TRUE, {"Exception"})

\* install_font_macos(font_file): except Exception; the copy is all there is
install_font_macos(dsk, font_file, io) ==
  install_body(dsk, font_file, io, FALSE, {"Exception"})

\* platform.system() as the installer reads it; "Java" has no font paths and
\* no install routine
Systems == {"Linux", "Windows", "Darwin", "Java"}

\* the font files the installer's scan finds: the files under the font
\* paths of its platform (SYSTEM_FONT_PATHS has none for an unknown one)
scan_system_fonts(system, dsk) ==
  IF system \in {"Linux", "Windows", "Darwin"} THEN dsk ELSE {}

\* check_font_installation_status()['font_count'] > 0
has_chinese_font(system, dsk) ==
  \E f \in scan_system_fonts(system, dsk) : font_file_is_chinese(f)

\* the keys of the download fallback, in the order of the loop
FallbackKeys == <<"wqy-zenhei", "simhei">>

\* lines 321-330: apt-get update, apt-get install, on Linux only, inside
\* try / except subprocess.CalledProcessError.  update and install_pkg are
\* "ok", "CalledProcessError" (non-zero exit) or "FileNotFoundError" (the
\* command cannot be started)
PackageManagerStep(system, dsk, env) ==
  LET exc == IF env.update # "ok" THEN env.update
             ELSE IF env.install_pkg # "ok" THEN env.install_pkg
             ELSE "none"
      trace == IF env.update = "ok"
               THEN << <<"run", "apt-get update">>, <<"run", "apt-get install">> >>
               ELSE << <<"run", "apt-get update">> >>
  IN  IF system # "Linux"
      THEN [raised |-> FALSE, done |-> FALSE, exc |-> "none", disk |-> dsk,
            trace |-> << >>]
      ELSE IF exc = "none"
      THEN [raised |-> FALSE, done |-> TRUE, exc |-> exc,
            disk |-> dsk \cup {"WenQuanYi Zen Hei"}, trace |-> trace]
      ELSE [raised |-> ~Caught(exc, {"CalledProcessError"}), done |-> FALSE,
            exc |-> exc, disk |-> dsk, trace |-> trace]

\* lines 336-342: the install routine of the platform; none for an unknown
\* platform (success stays False)
install_font(system, dsk, font_file, io) ==
  CASE system = "Linux"   -> install_font_linux(dsk, font_file, io)
    [] system = "Windows" -> install_font_windows(dsk, font_file, io)
    [] system = "Darwin"  -> install_font_macos(dsk, font_file, io)
    [] OTHER -> [raised |-> FALSE, exc |-> "none", ret |-> FALSE,
                 copied |-> FALSE, disk |-> dsk]

\* a plausible slip: the loop goes on after a key that installed
RECURSIVE DownloadLoop_no_stop(_, _, _, _)
DownloadLoop_no_stop(keys, system, dsk, env) ==
  IF keys = << >>
  THEN [raised |-> FALSE, exc |-> "none", ret |-> FALSE, disk |-> dsk,
        trace |-> << >>]
  ELSE LET key  == Head(keys)
           file == download_font(key, env.dl[key])
           inst == install_font(system, dsk, file, env.io[key])
           called == system \in {"Linux", "Windows", "Darwin"}
           after == IF file = NoFont THEN dsk ELSE inst.disk
           rest == DownloadLoop_no_stop(Tail(keys), system, after, env)
           here == IF file = NoFont \/ ~called
                   THEN << <<"download", key>> >>
                   ELSE << <<"download", key>>, <<"install", key>> >>
       IN  [ raised |-> rest.raised,
             exc    |-> rest.exc,
             ret    |-> rest.ret \/ (file # NoFont /\ inst.ret),
             disk   |-> rest.disk,
             trace  |-> here \o rest.trace ]

\* lines 332-348: for each key, download then install; True at the first
\* key that installs, False after the last
RECURSIVE DownloadLoop(_, _, _, _)
DownloadLoop(keys, system, dsk, env) ==
  IF keys = << >>
  THEN [raised |-> FALSE, exc |-> "none", ret |-> FALSE, disk |-> dsk,
        trace |-> << >>]
  ELSE LET key  == Head(keys)
           file == download_font(key, env.dl[key])
           inst == install_font(system, dsk, file, env.io[key])
           called == system \in {"Linux", "Windows", "Darwin"}
           after == IF file = NoFont THEN dsk ELSE inst.disk
           rest == DownloadLoop(Tail(keys), system, after, env)
       IN  IF file = NoFont
           THEN [rest EXCEPT !.trace = << <<"download", key>> >> \o @]
           ELSE IF ~called
           THEN [rest EXCEPT !.trace = << <<"download", key>> >> \o @]
           ELSE IF inst.raised
           THEN [raised |-> TRUE, exc |-> inst.exc, ret |-> FALSE,
                 disk |-> inst.disk,
                 trace |-> << <<"download", key>>, <<"install", key>> >>]
           ELSE IF inst.ret
           THEN [raised |-> FALSE, exc |-> "none", ret |-> TRUE,
                 disk |-> inst.disk,
                 trace |-> << <<"download", key>>, <<"install", key>> >>]
           ELSE [rest EXCEPT
                   !.trace = << <<"download", key>>, <<"install", key>> >> \o @]

\* a plausible slip: the package manager is tried before the status check
auto_install_checks_late(system, dsk, env) ==
  LET pm   == PackageManagerStep(system, dsk, env)
      loop == DownloadLoop(FallbackKeys, system, pm.disk, env)
  IN  IF pm.raised
      THEN [raised |-> TRUE, exc |-> pm.exc, ret |-> FALSE, disk |-> pm.disk,
            trace |-> pm.trace]
      ELSE IF pm.done \/ has_chinese_font(system, dsk)
      THEN [raised |-> FALSE, exc |-> "none", ret |-> TRUE, disk |-> pm.disk,
            trace |-> pm.trace]
      ELSE [raised |-> loop.raised, exc |-> loop.exc, ret |-> loop.ret,
            disk |-> loop.disk, trace |-> pm.trace \o loop.trace]

\* auto_install_chinese_fonts() of an installer on platform `system`, the
\* font files on disk being dsk; the result carries the disk it leaves and
\* the commands, downloads and installs it went through
auto_install_chinese_fonts(system, dsk, env) ==
  LET pm   == PackageManagerStep(system, dsk, env)
      loop == DownloadLoop(FallbackKeys, system, pm.disk, env)
  IN  IF has_chinese_font(system, dsk)
      THEN [raised |-> FALSE, exc |-> "none", ret |-> TRUE, disk |-> dsk,
            trace |-> << >>]
      ELSE IF pm.raised
      THEN [raised |-> TRUE, exc |-> pm.exc, ret |-> FALSE, disk |-> pm.disk,
            trace |-> pm.trace]
      ELSE IF pm.done
      THEN [raised |-> FALSE, exc |-> "none", ret |-> TRUE, disk |-> pm.disk,
            trace |-> pm.trace]
      ELSE [raised |-> loop.raised, exc |-> loop.exc, ret |-> loop.ret,
            disk |-> loop.disk, trace |-> pm.trace \o loop.trace]

\* what the package manager, the downloads and the installs do during one
\* auto_install_chinese_fonts call
OkIO == [makedirs |-> "ok", copy |-> "ok", refresh |-> "ok"]

AcquireEnvOf(update, dl1, dl2) ==
  [ update |-> update, install_pkg |-> "ok",
    dl |-> ("wqy-zenhei" :> dl1) @@ ("simhei" :> dl2),
    io |-> ("wqy-zenhei" :> OkIO) @@ ("simhei" :> OkIO) ]

\* the runs of auto_install_chinese_fonts the pipeline is checked with, by
\* outcome: the package manager installs; the first, the second, no key
\* installs; the package manager cannot be started
AcquireOutcomes == {"apt", "wqy-zenhei", "simhei", "none", "raise"}

AcquireEnv ==
  [ acq \in AcquireOutcomes |->
      CASE acq = "apt"        -> AcquireEnvOf("ok", "ok", "ok")
        [] acq = "wqy-zenhei" -> AcquireEnvOf("CalledProcessError", "ok", "ok")
        [] acq = "simhei"     -> AcquireEnvOf("CalledProcessError", "URLError", "ok")
        [] acq = "none"       -> AcquireEnvOf("CalledProcessError", "URLError", "URLError")
        [] OTHER              -> AcquireEnvOf("FileNotFoundError", "ok", "ok") ]

(***************************************************************************)
(* plot_config.py: setup_chinese_font                                      *)
(***************************************************************************)
\* what the environment answers during one call:
\*   seed      the enumeration order of list(set(...)) in this process
\*   configdir matplotlib.get_configdir()/glob: "ok" or "fails"
\*   rebuild   fm._rebuild(): "ok" or "fails"
\*   same_second  the call is over within the second of the cache
\*             directory's modification time
\*   acquire   one of AcquireOutcomes
\*   refresh   fm.fontManager.__init__(): "ok" or "fails"
Envs(s, font_name, auto_install, clear_cache) ==
  { e \in
      [ \* the order is consulted by the marker scan of detection only
        seed      : IF font_name = NoFont THEN 0..(NumSeeds - 1) ELSE {0},
        configdir : IF clear_cache THEN {"ok", "fails"} ELSE {"ok"},
        rebuild   : IF clear_cache THEN {"ok", "fails"} ELSE {"ok"},
        \* asked only when there is something to delete
        same_second : IF clear_cache /\ s.cache.fontlists > 0
                      THEN BOOLEAN ELSE {FALSE},
        \* asked only when the installer finds no Chinese font file
        acquire   : IF auto_install /\ font_name = NoFont
                       /\ ~(\E f \in s.disk : font_file_is_chinese(f))
                    THEN AcquireOutcomes ELSE {"none"},
        \* asked only for a font named by the caller
        refresh   : IF font_name # NoFont THEN {"ok", "fails"} ELSE {"ok"} ] :
      e.configdir = "fails" => e.rebuild = "ok" }

\* the body of the try of step 1 (lines 153-158) under the except clauses
\* `handlers`: the cleaner is made, the cache cleared and rebuilt; an
\* exception of the constructor skips both.  exc is the exception that
\* leaves the step, "none" when none does
CacheStepBody(s, e, handlers) ==
  LET found == _find_cache_dirs(<<s.cache>>, e.configdir)
      cl    == clear_font_cache(<<s.cache>>, found.dirs, TRUE, e.same_second)
      rb    == rebuild_font_cache(s.registry, s.disk, cl.fs,
                 IF e.rebuild = "ok" /\ e.same_second THEN "ok_same_second"
                 ELSE e.rebuild)
  IN  IF found.raised
      THEN [registry |-> s.registry, cache |-> s.cache,
            steps |-> <<"cleaner_raised">>,
            exc |-> IF Caught(found.exc, handlers) THEN "none" ELSE found.exc]
      ELSE IF cl.raised
      THEN [registry |-> s.registry, cache |-> cl.fs[ConfigDir],
            steps |-> <<"clear">>,
            exc |-> IF Caught("OSError", handlers) THEN "none" ELSE "OSError"]
      ELSE [registry |-> rb.registry, cache |-> rb.fs[ConfigDir],
            steps |-> <<"clear", "rebuild">>, exc |-> "none"]

\* a plausible slip: only the failing import is handled
CacheStep_import_error_only(s, clear_cache, e) ==
  IF ~clear_cache
  THEN [registry |-> s.registry, cache |-> s.cache, steps |-> << >>,
        exc |-> "none"]
  ELSE CacheStepBody(s, e, {"ImportError"})

\* step 1 (lines 150-162): when clear_cache, the body under
\* except ImportError / except Exception
CacheStep(s, clear_cache, e) ==
  IF ~clear_cache
  THEN [registry |-> s.registry, cache |-> s.cache, steps |-> << >>,
        exc |-> "none"]
  ELSE CacheStepBody(s, e, {"ImportError", "Exception"})

\* a plausible slip: acquisition is tried whenever no font was detected,
\* whatever auto_install says
AcquireStep_ignores_flag(reg, dsk, font2, auto_install, e) ==
  LET acq == auto_install_chinese_fonts("Linux", dsk, AcquireEnv["simhei"]) IN
  IF font2 # NoFont
  THEN [font |-> font2, disk |-> dsk, steps |-> << >>, exc |-> "none"]
  ELSE [font |-> detect_chinese_font(get_available_fonts(reg, e.seed, TRUE)),
        disk |-> acq.disk, steps |-> <<"acquire", "detect">>, exc |-> "none"]

\* step 3 (lines 168-182): acquisition when nothing was detected and
\* auto_install, then detection again
AcquireStep(reg, dsk, font2, auto_install, e) ==
  LET After(acq) ==
        IF acq.raised
        THEN [font |-> NoFont, disk |-> acq.disk,
              steps |-> <<"acquire", "acquire_raised">>,
              exc |-> IF Caught(acq.exc, {"ImportError", "Exception"})
                      THEN "none" ELSE acq.exc]
        ELSE IF acq.ret
        THEN [font |-> detect_chinese_font(get_available_fonts(reg, e.seed, TRUE)),
              disk |-> acq.disk, steps |-> <<"acquire", "detect">>, exc |-> "none"]
        ELSE [font |-> NoFont, disk |-> acq.disk, steps |-> <<"acquire">>,
              exc |-> "none"]
  IN  IF ~(font2 = NoFont /\ auto_install)
      THEN [font |-> font2, disk |-> dsk, steps |-> << >>, exc |-> "none"]
      ELSE After(auto_install_chinese_fonts("Linux", dsk, AcquireEnv[e.acquire]))

\* a plausible slip: the generic failure is raised for an unavailable font
ValidateStep_generic_failure(reg, dsk, font3, e) ==
  LET available == get_available_fonts(reg, e.seed, TRUE)
      reg4      == IF e.refresh = "ok" THEN dsk ELSE reg
      again     == get_available_fonts(reg4, e.seed, TRUE)
  IN  IF InList(font3, available)
      THEN [outcome |-> "returned", registry |-> reg, steps |-> <<"validate">>,
            available |-> available]
      ELSE IF InList(font3, again)
      THEN [outcome |-> "returned", registry |-> reg4,
            steps |-> <<"validate", "refresh", "validate">>,
            available |-> again]
      ELSE [outcome |-> "RuntimeError", registry |-> reg4,
            steps |-> <<"validate", "refresh", "validate">>,
            available |-> again]

\* a plausible slip: after the refresh the font is taken without a second
\* check
ValidateStep_no_second_check(reg, dsk, font3, e) ==
  LET available == get_available_fonts(reg, e.seed, TRUE)
      reg4      == IF e.refresh = "ok" THEN dsk ELSE reg
      again     == get_available_fonts(reg4, e.seed, TRUE)
  IN  IF InList(font3, available)
      THEN [outcome |-> "returned", registry |-> reg, steps |-> <<"validate">>,
            available |-> available]
      ELSE [outcome |-> "returned", registry |-> reg4,
            steps |-> <<"validate", "refresh", "validate">>,
            available |-> again]

\* lines 191-206: the font is checked against the available families, the
\* registry is refreshed once when it is absent, then checked again
ValidateStep(reg, dsk, font3, e) ==
  LET available == get_available_fonts(reg, e.seed, TRUE)
      reg4      == IF e.refresh = "ok" THEN dsk ELSE reg
      again     == get_available_fonts(reg4, e.seed, TRUE)
  IN  IF InList(font3, available)
      THEN [outcome |-> "returned", registry |-> reg, steps |-> <<"validate">>,
            available |-> available]
      ELSE IF InList(font3, again)
      THEN [outcome |-> "returned", registry |-> reg4,
            steps |-> <<"validate", "refresh", "validate">>,
            available |-> again]
      ELSE [outcome |-> "ValueError", registry |-> reg4,
            steps |-> <<"validate", "refresh", "validate">>,
            available |-> again]

\* a plausible slip: the configuration is written before the font is
\* validated
setup_chinese_font_configures_first(s, font_name, font_size, auto_install, clear_cache, deep_config, e) ==
  LET st2 == IF font_name = NoFont THEN <<"detect">> ELSE << >>
      \* step 2 (lines 164-166): detection when no font was named
      font2(c1) == IF font_name = NoFont
                   THEN detect_chinese_font(
                          get_available_fonts(c1.registry, e.seed, TRUE))
                   ELSE font_name
      \* what the call leaves, c1, a3 and v being the results of step 1,
      \* step 3 and the validation
      Result(c1, a3, v) ==
        IF c1.exc # "none"
        THEN [ outcome |-> c1.exc, ret |-> NoFont,
               registry |-> c1.registry, disk |-> s.disk, cache |-> c1.cache,
               rc |-> s.rc, steps |-> c1.steps, available |-> << >> ]
        ELSE IF a3.exc # "none"
        THEN [ outcome |-> a3.exc, ret |-> NoFont,
               registry |-> c1.registry, disk |-> a3.disk, cache |-> c1.cache,
               rc |-> s.rc, steps |-> c1.steps \o st2 \o a3.steps,
               available |-> << >> ]
        ELSE IF a3.font = NoFont
        THEN [ outcome |-> "RuntimeError", ret |-> NoFont,
               registry |-> c1.registry, disk |-> a3.disk, cache |-> c1.cache,
               rc |-> s.rc, steps |-> c1.steps \o st2 \o a3.steps,
               available |-> << >> ]
        ELSE IF v.outcome # "returned"
        THEN [ outcome |-> v.outcome, ret |-> NoFont,
               registry |-> v.registry, disk |-> a3.disk, cache |-> c1.cache,
               rc |-> IF deep_config
                      THEN _deep_configure_matplotlib(s.rc, a3.font, font_size)
                      ELSE _basic_configure_matplotlib(s.rc, a3.font, font_size),
               steps |-> c1.steps \o st2 \o a3.steps \o v.steps,
               available |-> v.available ]
        ELSE [ outcome |-> "returned", ret |-> a3.font,
               registry |-> v.registry, disk |-> a3.disk, cache |-> c1.cache,
               rc |-> IF deep_config
                      THEN _deep_configure_matplotlib(s.rc, a3.font, font_size)
                      ELSE _basic_configure_matplotlib(s.rc, a3.font, font_size),
               steps |-> c1.steps \o st2 \o a3.steps \o v.steps \o <<"apply">>,
               available |-> v.available ]
      Validate(c1, a3) ==
        Result(c1, a3, ValidateStep(c1.registry, a3.disk, a3.font, e))
      Acquire(c1) ==
        Validate(c1, AcquireStep(c1.registry, s.disk, font2(c1), auto_install, e))
  IN  Acquire(CacheStep(s, clear_cache, e))

\* setup_chinese_font(font_name, font_size, enable_warnings, auto_install,
\* clear_cache, deep_config) on state s = [registry, disk, cache, rc];
\* the result carries the state it leaves and the steps it went through
setup_chinese_font(s, font_name, font_size, auto_install, clear_cache, deep_config, e) ==
  LET st2 == IF font_name = NoFont THEN <<"detect">> ELSE << >>
      \* step 2 (lines 164-166): detection when no font was named
      font2(c1) == IF font_name = NoFont
                   THEN detect_chinese_font(
                          get_available_fonts(c1.registry, e.seed, TRUE))
                   ELSE font_name
      \* what the call leaves, c1, a3 and v being the results of step 1,
      \* step 3 and the validation
      Result(c1, a3, v) ==
        IF c1.exc # "none"
        THEN [ outcome |-> c1.exc, ret |-> NoFont,
               registry |-> c1.registry, disk |-> s.disk, cache |-> c1.cache,
               rc |-> s.rc, steps |-> c1.steps, available |-> << >> ]
        ELSE IF a3.exc # "none"
        THEN [ outcome |-> a3.exc, ret |-> NoFont,
               registry |-> c1.registry, disk |-> a3.disk, cache |-> c1.cache,
               rc |-> s.rc, steps |-> c1.steps \o st2 \o a3.steps,
               available |-> << >> ]
        ELSE IF a3.font = NoFont
        THEN [ outcome |-> "RuntimeError", ret |-> NoFont,
               registry |-> c1.registry, disk |-> a3.disk, cache |-> c1.cache,
               rc |-> s.rc, steps |-> c1.steps \o st2 \o a3.steps,
               available |-> << >> ]
        ELSE IF v.outcome # "returned"
        THEN [ outcome |-> v.outcome, ret |-> NoFont,
               registry |-> v.registry, disk |-> a3.disk, cache |-> c1.cache,
               rc |-> s.rc, steps |-> c1.steps \o st2 \o a3.steps \o v.steps,
               available |-> v.available ]
        ELSE [ outcome |-> "returned", ret |-> a3.font,
               registry |-> v.registry, disk |-> a3.disk, cache |-> c1.cache,
               rc |-> IF deep_config
                      THEN _deep_configure_matplotlib(s.rc, a3.font, font_size)
                      ELSE _basic_configure_matplotlib(s.rc, a3.font, font_size),
               steps |-> c1.steps \o st2 \o a3.steps \o v.steps \o <<"apply">>,
               available |-> v.available ]
      Validate(c1, a3) ==
        Result(c1, a3, ValidateStep(c1.registry, a3.disk, a3.font, e))
      Acquire(c1) ==
        Validate(c1, AcquireStep(c1.registry, s.disk, font2(c1), auto_install, e))
  IN  Acquire(CacheStep(s, clear_cache, e))

(***************************************************************************)
(* plot_config.py: complete_chinese_font_setup, quick_fix_chinese_display  *)
(***************************************************************************)
\* font_size default of complete_chinese_font_setup, used by the quick fix
DefaultFontSize == 12

\* a plausible slip: the exception of setup_chinese_font is recorded in
\* the warnings and the status is left as initialised
complete_setup_keeps_unknown(s, font_name, font_size, auto_install, clear_cache, e, render) ==
  LET r == setup_chinese_font(s, font_name, font_size, auto_install,
                              clear_cache, TRUE, e)
  IN  [ raised   |-> FALSE,
        status   |-> IF r.outcome = "returned" THEN "success" ELSE "unknown",
        font_name |-> r.ret,
        warnings |-> <<"font_census">>,
        errors   |-> << >>,
        recommendations |-> << >>,
        setup    |-> r ]

\* complete_chinese_font_setup(font_name, font_size, auto_install,
\* clear_cache): the RemediationResult and the run of setup_chinese_font
\* (deep_config=True) it rests on.  The body is one try block whose handler
\* catches Exception, so no exception of setup_chinese_font leaves it.
complete_chinese_font_setup(s, font_name, font_size, auto_install, clear_cache, e, render) ==
  LET chinese == list_available_chinese_fonts(
                   get_available_fonts(s.registry, e.seed, TRUE))
      w1 == IF chinese = << >> THEN <<"no_chinese_font_detected">>
            ELSE <<"chinese_fonts_detected">>
      r1 == IF chinese = << >>
            THEN (IF auto_install THEN <<"will_auto_install">>
                  ELSE <<"enable_auto_install">>)
            ELSE << >>
      r  == setup_chinese_font(s, font_name, font_size, auto_install,
                               clear_cache, TRUE, e)
  IN  IF r.outcome = "returned"
      THEN [ raised   |-> FALSE,
             status   |-> "success",
             font_name |-> r.ret,
             warnings |-> IF render = "ok" THEN w1
                          ELSE w1 \o <<"render_test_failed">>,
             errors   |-> << >>,
             recommendations |-> r1 \o <<"configured", "restart_if_needed">>,
             setup    |-> r ]
      ELSE [ raised   |-> FALSE,
             status   |-> "failed",
             font_name |-> NoFont,
             warnings |-> w1,
             errors   |-> <<r.outcome>>,
             recommendations |-> r1 \o <<"check_permissions", "install_manually">>,
             setup    |-> r ]

\* a plausible slip: the quick fix reports success whenever the call returns
quick_fix_always_true(s, e, render) ==
  [ raised |-> FALSE, ok |-> TRUE,
    run |-> complete_chinese_font_setup(s, NoFont, DefaultFontSize, TRUE, TRUE,
                                        e, render) ]

\* quick_fix_chinese_display(): the structured run with auto_install and
\* clear_cache, reduced to a boolean
quick_fix_chinese_display(s, e, render) ==
  LET run == complete_chinese_font_setup(s, NoFont, DefaultFontSize, TRUE, TRUE,
                                         e, render)
  IN  [raised |-> run.raised, ok |-> run.status = "success", run |-> run]

(***************************************************************************)
(* plot_config.py: diagnose_chinese_display                                *)
(***************************************************************************)
\* the cache file count above which clearing is recommended
CacheFileThreshold == 10

\* a plausible slip: the bound of "few fonts" is off by one
font_count_status_off_by_one(n) ==
  IF n = 0 THEN "poor" ELSE IF n < 2 THEN "fair" ELSE "unknown"

\* lines 548-553: the status after the Chinese font count is looked at;
\* "unknown" is the value the report is initialised with
font_count_status(n) ==
  IF n = 0 THEN "poor" ELSE IF n < 3 THEN "fair" ELSE "unknown"

\* diagnose_chinese_display(): configdir is what the cleaner's constructor
\* meets; an empty font.sans-serif list makes [0] raise, the only exception
\* the body can meet
diagnose_chinese_display(reg, r, c, seed, configdir) ==
  LET available == get_available_fonts(reg, seed, TRUE)
      chinese   == list_available_chinese_fonts(available)
      n         == Len(chinese)
      found     == _find_cache_dirs(<<c>>, configdir)
      files     == IF found.raised THEN 0
                   ELSE get_cache_info(<<c>>, [cache_dirs |-> found.dirs,
                                               font_cache_files |-> << >>]
                                      ).info.cache_count
      current   == r.sans_serif[1]
      status1   == font_count_status(n)
      issues1   == IF n = 0 THEN <<"no_chinese_font">>
                   ELSE IF n < 3 THEN <<"few_chinese_fonts">> ELSE << >>
      flagged   == ~InList(current, chinese) /\ current # ""
      status2   == IF flagged /\ status1 # "poor" THEN "fair" ELSE status1
      issues2   == IF flagged THEN issues1 \o <<"current_font_not_chinese">>
                   ELSE issues1
      issues    == IF r.unicode_minus = TRUE
                   THEN issues2 \o <<"unicode_minus">> ELSE issues2
      recs1     == IF n = 0 THEN <<"install_fonts", "download_manually">>
                   ELSE << >>
      recs2     == IF ~InList(current, chinese)
                   THEN recs1 \o <<"reconfigure_font">> ELSE recs1
      recs3     == IF files > CacheFileThreshold
                   THEN recs2 \o <<"clear_cache">> ELSE recs2
  IN  IF r.sans_serif = << >>
      THEN [ overall_status |-> "error", issues |-> <<"diagnose_failed">>,
             recommendations |-> <<"check_environment">>,
             chinese_font_count |-> n, current_font |-> "", cache_files |-> 0 ]
      ELSE [ overall_status |-> IF issues = << >> THEN "good" ELSE status2,
             issues |-> issues,
             recommendations |-> IF issues = << >>
                                 THEN recs3 \o <<"all_good">> ELSE recs3,
             chinese_font_count |-> n, current_font |-> current,
             cache_files |-> files ]

(***************************************************************************)
(* config/config_loader.py: ConfigLoader.get, ConfigLoader.set             *)
(*                                                                         *)
(* A configuration value is a node [kind, items, v]: a dict (kind "dict",  *)
(* items its mapping from keys to nodes) or a leaf of kind "str", "float", *)
(* "int", "list" or "None" with its text v.  A dotted key is given by the  *)
(* list key.split('.') of its segments, which is never empty.              *)
(***************************************************************************)
NoItems == << >>
Dict(items) == [kind |-> "dict", items |-> items, v |-> ""]
Leaf(kind, v) == [kind |-> kind, items |-> NoItems, v |-> v]
NoneValue == Leaf("None", "None")

\* a plausible slip: the loop indexes whatever `k in value` accepts
RECURSIVE GetWalk_no_isinstance(_, _, _)
GetWalk_no_isinstance(value, keys, default) ==
  IF keys = << >>
  THEN [raised |-> FALSE, exc |-> "none", ret |-> value]
  ELSE IF value.kind \in {"float", "int", "None"}
  THEN [raised |-> TRUE, exc |-> "TypeError", ret |-> NoneValue]
  ELSE IF value.kind = "dict" /\ Head(keys) \in DOMAIN value.items
  THEN GetWalk_no_isinstance(value.items[Head(keys)], Tail(keys), default)
  ELSE [raised |-> FALSE, exc |-> "none", ret |-> default]

\* lines 77-83: the loop of get over the segments, from `value`
RECURSIVE GetWalk(_, _, _)
GetWalk(value, keys, default) ==
  IF keys = << >>
  THEN [raised |-> FALSE, exc |-> "none", ret |-> value]
  ELSE IF value.kind = "dict" /\ Head(keys) \in DOMAIN value.items
  THEN GetWalk(value.items[Head(keys)], Tail(keys), default)
  ELSE [raised |-> FALSE, exc |-> "none", ret |-> default]

\* get(key, default) on the dictionary cfg
get(cfg, keys, default) ==
  LET After(w) == [raised |-> w.raised, exc |-> w.exc, ret |-> w.ret,
                   config |-> cfg]
  IN  After(GetWalk(cfg, keys, default))

\* lines 99-105: the loop of set from the dictionary `node` on, and the
\* assignment of the last segment.  The dictionary is changed in place;
\* the result is the node afterwards.  On a node that is not a dict,
\* `k not in config` (float, int, None), `config[k] = {}` (str, list),
\* `config[k]` (str) or the final `config[keys[-1]] = value` raises
\* TypeError; nothing was changed before, because the nodes the loop makes
\* are dicts.
RECURSIVE SetWalk(_, _, _)
SetWalk(node, keys, value) ==
  IF node.kind # "dict"
  THEN [raised |-> TRUE, exc |-> "TypeError", node |-> node]
  ELSE IF Len(keys) = 1
  THEN [raised |-> FALSE, exc |-> "none",
        node |-> Dict((Head(keys) :> value) @@ node.items)]
  ELSE LET k     == Head(keys)
           made  == IF k \in DOMAIN node.items THEN node
                    ELSE Dict((k :> Dict(NoItems)) @@ node.items)
           below == SetWalk(made.items[k], Tail(keys), value)
       IN  [raised |-> below.raised, exc |-> below.exc,
            node |-> Dict((k :> below.node) @@ made.items)]

\* set(key, value) on the dictionary cfg
set(cfg, keys, value) ==
  LET After(w) == [raised |-> w.raised, exc |-> w.exc, config |-> w.node]
  IN  After(SetWalk(cfg, keys, value))

\* get_default_config(), reduced to the path of one nested value:
\* {'control': {'pid': {'kp': 1.0}}}
get_default_config ==
  Dict("control" :> Dict("pid" :> Dict("kp" :> Leaf("float", "1.0"))))

\* no ConfigLoader is held by the font pipeline
NoConfig == Dict(NoItems)

(***************************************************************************)
(* The state machine                                                       *)
(***************************************************************************)
\* explicit font names and font sizes a caller passes
FontArgs == {NoFont, "SimHei", "Arial"}
FontSizes == {DefaultFontSize, DefaultFontSize + 2}

\* the log of the last public call
NoCall ==
  [ op |-> "none", font_arg |-> NoFont, font_size |-> 0,
    auto_install |-> FALSE, clear_cache |-> FALSE, deep_config |-> FALSE,
    outcome |-> "none", ret |-> NoFont, ok |-> FALSE,
    steps |-> << >>, available |-> << >>,
    status |-> "none", warnings |-> << >>, errors |-> << >>,
    families |-> {}, severity |-> "none", issues |-> << >>,
    recommendations |-> << >>, cache_files |-> 0, configdir |-> "ok" ]

State == [registry |-> registry, disk |-> disk, cache |-> cache, rc |-> rc]

\* no FontInstaller and no MatplotlibCacheCleaner object is held between the
\* calls of plot_config: each call makes its own
NoInstaller == [system |-> "Linux"]
NoCleaner == [cache_dirs |-> << >>, font_cache_files |-> << >>]

\* a cache directory holding n font-list files and m other entries
CacheDir(n, m) ==
  [exists |-> TRUE, mode |-> "rw", fontlists |-> n, fontManager |-> FALSE,
   fontdirs |-> 0, font_named_files |-> 0, others |-> m, backups |-> 0,
   backup_of_mtime |-> FALSE]

\* the machines the pipeline is started on: the fonts on disk, the registry
\* the toolkit loaded (in the sixth SimHei was installed after the registry
\* was built) and the cache directory (in the last one it is read-only)
InitialMachines ==
  { [disk |-> {}, registry |-> {}, cache |-> CacheDir(0, 0)],
    [disk |-> {"Arial"}, registry |-> {"Arial"}, cache |-> CacheDir(1, 0)],
    [disk |-> {"Arial", "DejaVu Sans"}, registry |-> {"Arial", "DejaVu Sans"},
     cache |-> CacheDir(1, 0)],
    [disk |-> {"Arial", "SimHei"}, registry |-> {"Arial", "SimHei"},
     cache |-> CacheDir(1, 0)],
    [disk |-> {"Noto Sans CJK JP", "Noto Serif CJK JP"},
     registry |-> {"Noto Sans CJK JP", "Noto Serif CJK JP"},
     cache |-> CacheDir(1, 0)],
    [disk |-> {"Arial", "SimHei"}, registry |-> {"Arial"},
     cache |-> CacheDir(1, 0)],
    [disk |-> {"Arial", "SimHei"}, registry |-> {"Arial", "SimHei"},
     cache |-> [CacheDir(1, 0) EXCEPT !.mode = "ro"]] }

Init ==
  /\ \E m \in InitialMachines :
       /\ disk = m.disk
       /\ registry = m.registry
       /\ cache = m.cache
  /\ rc = DefaultRc
  /\ last = NoCall
  /\ calls = 0
  /\ installer = NoInstaller
  /\ config = NoConfig
  /\ cache_cleaner = NoCleaner

\* setup_chinese_font(...) called by the application
Configure ==
  /\ calls < MaxCalls
  /\ last.op = "none"
  /\ \E font_name \in FontArgs, font_size \in FontSizes,
        auto_install \in BOOLEAN, clear_cache \in BOOLEAN,
        deep_config \in BOOLEAN :
       \E e \in Envs(State, font_name, auto_install, clear_cache) :
         \E r \in { setup_chinese_font(State, font_name, font_size,
                                       auto_install, clear_cache, deep_config, e) } :
             /\ registry' = r.registry
             /\ disk' = r.disk
             /\ cache' = r.cache
             /\ rc' = r.rc
             /\ last' = [ NoCall EXCEPT
                            !.op = "configure",
                            !.font_arg = font_name,
                            !.font_size = font_size,
                            !.auto_install = auto_install,
                            !.clear_cache = clear_cache,
                            !.deep_config = deep_config,
                            !.outcome = r.outcome,
                            !.ret = r.ret,
                            !.steps = r.steps,
                            !.available = r.available ]
  /\ calls' = calls + 1
  /\ UNCHANGED <<installer, cache_cleaner, config>>

\* complete_chinese_font_setup(...) called by the application
CompleteSetup ==
  /\ calls < MaxCalls
  /\ last.op = "none"
  /\ \E font_name \in FontArgs, font_size \in FontSizes,
        auto_install \in BOOLEAN, clear_cache \in BOOLEAN,
        render \in {"ok", "fails"} :
       \E e \in Envs(State, font_name, auto_install, clear_cache) :
         \E c \in { complete_chinese_font_setup(State, font_name, font_size,
                                                auto_install, clear_cache, e, render) } :
             /\ registry' = c.setup.registry
             /\ disk' = c.setup.disk
             /\ cache' = c.setup.cache
             /\ rc' = c.setup.rc
             /\ last' = [ NoCall EXCEPT
                            !.op = "complete",
                            !.font_arg = font_name,
                            !.font_size = font_size,
                            !.auto_install = auto_install,
                            !.clear_cache = clear_cache,
                            !.deep_config = TRUE,
                            !.outcome = IF c.raised THEN "raised"
                                        ELSE "returned",
                            !.ret = c.font_name,
                            !.steps = c.setup.steps,
                            !.available = c.setup.available,
                            !.status = c.status,
                            !.warnings = c.warnings,
                            !.errors = c.errors,
                            !.recommendations = c.recommendations ]
  /\ calls' = calls + 1
  /\ UNCHANGED <<installer, cache_cleaner, config>>

\* quick_fix_chinese_display() called by the application
QuickFix ==
  /\ calls < MaxCalls
  /\ last.op = "none"
  /\ \E render \in {"ok", "fails"} :
       \E e \in Envs(State, NoFont, TRUE, TRUE) :
         \E q \in { quick_fix_chinese_display(State, e, render) } :
             /\ registry' = q.run.setup.registry
             /\ disk' = q.run.setup.disk
             /\ cache' = q.run.setup.cache
             /\ rc' = q.run.setup.rc
             /\ last' = [ NoCall EXCEPT
                            !.op = "quick_fix",
                            !.font_size = DefaultFontSize,
                            !.auto_install = TRUE,
                            !.clear_cache = TRUE,
                            !.deep_config = TRUE,
                            !.outcome = IF q.raised THEN "raised"
                                        ELSE "returned",
                            !.ok = q.ok,
                            !.ret = q.run.font_name,
                            !.steps = q.run.setup.steps,
                            !.available = q.run.setup.available,
                            !.status = q.run.status,
                            !.warnings = q.run.warnings,
                            !.errors = q.run.errors,
                            !.recommendations = q.run.recommendations ]
  /\ calls' = calls + 1
  /\ UNCHANGED <<installer, cache_cleaner, config>>

\* reset_font_config(): plt.rcdefaults()
ResetFontConfig ==
  /\ calls < MaxCalls
  /\ last.op = "none"
  /\ rc' = DefaultRc
  /\ last' = [NoCall EXCEPT !.op = "reset", !.outcome = "returned"]
  /\ calls' = calls + 1
  /\ UNCHANGED <<registry, disk, cache, installer, cache_cleaner, config>>

\* the application takes the result of the call and goes on
Return ==
  /\ last.op # "none"
  /\ last' = NoCall
  /\ UNCHANGED <<registry, disk, cache, rc, calls, installer, cache_cleaner, config>>

Next ==
  \/ Configure
  \/ CompleteSetup
  \/ QuickFix
  \/ ResetFontConfig
  \/ Return

Spec == Init /\ [][Next]_vars

(***************************************************************************)
(* detect_chinese_font as a function of the registry: every set of         *)
(* families, every enumeration order                                       *)
(***************************************************************************)
InitDetect ==
  /\ registry \in SUBSET Families
  /\ disk = registry
  /\ cache = CacheDir(1, 0)
  /\ rc = DefaultRc
  /\ last = NoCall
  /\ calls = 0
  /\ installer = NoInstaller
  /\ config = NoConfig
  /\ cache_cleaner = NoCleaner

\* detect_chinese_font() called by the application, in a process whose
\* hash seed is `seed`
Detect ==
  \E seed \in 0..(NumSeeds - 1) :
    \E r \in { detect_chinese_font(get_available_fonts(registry, seed, TRUE)) } :
      /\ last' = [ NoCall EXCEPT
                     !.op = "detect",
                     !.outcome = "returned",
                     !.families = registry,
                     !.ret = r ]
      /\ UNCHANGED <<registry, disk, cache, rc, calls, installer, cache_cleaner, config>>

SpecDetect == InitDetect /\ [][Detect]_vars

(***************************************************************************)
(* detect_chinese_font and verify_font_cache asked about the same          *)
(* registry, over every set of families                                    *)
(***************************************************************************)
\* MatplotlibCacheCleaner().verify_font_cache() called by the application
Verify ==
  \E outcome \in {"ok", "fails"} :
    \E v \in { verify_font_cache(registry, <<cache>>, NoCleaner, outcome) } :
      /\ last' = [ NoCall EXCEPT
                     !.op = "verify",
                     !.outcome = "returned",
                     !.families = registry,
                     !.ok = v.success,
                     !.status = v.cache_status ]
      /\ UNCHANGED <<registry, disk, cache, rc, calls, installer, cache_cleaner, config>>

NextClassify ==
  \/ Detect
  \/ Verify

SpecClassify == InitDetect /\ [][NextClassify]_vars

(***************************************************************************)
(* diagnose_chinese_display over every registry, the configurations        *)
(* setup_chinese_font leaves, and empty and crowded cache directories      *)
(***************************************************************************)
\* entries other than font-list files in a crowded cache directory
ManyFiles == 10

\* the default configuration and what one configuration call makes of it
RcSamples ==
  {DefaultRc}
  \cup { _basic_configure_matplotlib(DefaultRc, f, DefaultFontSize) :
           f \in {"SimHei", "Arial", "Noto Sans CJK JP"} }
  \cup { _deep_configure_matplotlib(DefaultRc, f, DefaultFontSize) :
           f \in {"SimHei", "Arial", "Noto Sans CJK JP"} }

InitDiagnose ==
  /\ registry \in SUBSET Families
  /\ disk = registry
  /\ cache \in {CacheDir(0, 0), CacheDir(1, 0), CacheDir(1, ManyFiles)}
  /\ rc \in RcSamples
  /\ last = NoCall
  /\ calls = 0
  /\ installer = NoInstaller
  /\ config = NoConfig
  /\ cache_cleaner = NoCleaner

\* diagnose_chinese_display() called by the application
Diagnose ==
  \E seed \in 0..(NumSeeds - 1), configdir \in {"ok", "fails"} :
    \E d \in { diagnose_chinese_display(registry, rc, cache, seed, configdir) } :
      /\ last' = [ NoCall EXCEPT
                     !.op = "diagnose",
                     !.outcome = "returned",
                     !.severity = d.overall_status,
                     !.issues = d.issues,
                     !.recommendations = d.recommendations,
                     !.cache_files = d.cache_files,
                     !.configdir = configdir ]
      /\ UNCHANGED <<registry, disk, cache, rc, calls, installer, cache_cleaner, config>>

SpecDiagnose == InitDiagnose /\ [][Diagnose]_vars

(***************************************************************************)
(* font_installer.py: a caller holding a FontInstaller, on each platform   *)
(* and over font directories with and without a Chinese font               *)
(***************************************************************************)
\* calls made on one installer
MaxInstallerCalls == 1

\* what an install_font_* call may meet inside auto_install_chinese_fonts
LoopIO ==
  { OkIO,
    [makedirs |-> "ok", copy |-> "PermissionError", refresh |-> "ok"],
    [makedirs |-> "ok", copy |-> "ok", refresh |-> "CalledProcessError"],
    [makedirs |-> "ok", copy |-> "ok", refresh |-> "FileNotFoundError"] }

\* what the package manager, the network and the file system answer during
\* one auto_install_chinese_fonts call
InstallerEnvs ==
  { env \in [ update      : {"ok", "CalledProcessError", "FileNotFoundError"},
              install_pkg : {"ok", "CalledProcessError"},
              dl          : [DOMAIN FONT_DOWNLOADS -> {"ok", "URLError"}],
              io          : [DOMAIN FONT_DOWNLOADS -> LoopIO] ] :
      env.update # "ok" => env.install_pkg = "ok" }

\* the log of the last call on the installer
NoInstallerCall ==
  [ op |-> "none", routine |-> "none", font_file |-> NoFont,
    had_font |-> FALSE, disk_before |-> {}, env |-> AcquireEnv["apt"],
    io |-> OkIO, raised |-> FALSE, ret |-> FALSE, copied |-> FALSE,
    trace |-> << >> ]

InitInstaller ==
  /\ installer \in [system : Systems]
  /\ disk \in SUBSET {"Arial", "DejaVu Sans", "SimHei"}
  /\ registry = {}
  /\ cache = CacheDir(0, 0)
  /\ rc = DefaultRc
  /\ last = NoInstallerCall
  /\ calls = 0
  /\ cache_cleaner = NoCleaner
  /\ config = NoConfig

\* installer.auto_install_chinese_fonts()
AutoInstall ==
  /\ calls < MaxInstallerCalls
  /\ \E env \in InstallerEnvs :
       \E r \in { auto_install_chinese_fonts(installer.system, disk, env) } :
         /\ disk' = r.disk
         /\ last' = [ NoInstallerCall EXCEPT
                        !.op = "auto_install",
                        !.had_font = has_chinese_font(installer.system, disk),
                        !.disk_before = disk,
                        !.env = env,
                        !.raised = r.raised,
                        !.ret = r.ret,
                        !.trace = r.trace ]
  /\ calls' = calls + 1
  /\ UNCHANGED <<registry, cache, rc, installer, cache_cleaner, config>>

\* installer.install_font_linux / _windows / _macos (font_file)
InstallFont ==
  /\ calls < MaxInstallerCalls
  /\ \E routine \in {"Linux", "Windows", "Darwin"},
        font_file \in {"SimHei", "WenQuanYi Zen Hei"}, io \in InstallIO :
       \E r \in { install_font(routine, disk, font_file, io) } :
         /\ disk' = r.disk
         /\ last' = [ NoInstallerCall EXCEPT
                        !.op = "install",
                        !.routine = routine,
                        !.font_file = font_file,
                        !.disk_before = disk,
                        !.io = io,
                        !.raised = r.raised,
                        !.ret = r.ret,
                        !.copied = r.copied ]
  /\ calls' = calls + 1
  /\ UNCHANGED <<registry, cache, rc, installer, cache_cleaner, config>>

NextInstaller ==
  \/ AutoInstall
  \/ InstallFont

SpecInstaller == InitInstaller /\ [][NextInstaller]_vars

(***************************************************************************)
(* clear_matplotlib_cache.py: a caller holding a MatplotlibCacheCleaner    *)
(* it has just made.  The configuration directory and one conventional     *)
(* cache location are on disk.                                             *)
(***************************************************************************)
\* calls made on one cleaner
MaxCleanerCalls == 3

\* the configuration directory, by content and permission
ConfigDirSamples ==
  { CacheDir(0, 1),
    CacheDir(1, 0),
    [CacheDir(2, 1) EXCEPT !.fontManager = TRUE, !.fontdirs = 1,
                           !.font_named_files = 1],
    [CacheDir(1, 1) EXCEPT !.mode = "ro"],
    [CacheDir(1, 0) EXCEPT !.mode = "none"] }

\* the conventional location: missing, or a directory with a font-list file
OtherDirSamples ==
  { [CacheDir(0, 0) EXCEPT !.exists = FALSE],
    CacheDir(1, 1),
    [CacheDir(1, 0) EXCEPT !.mode = "ro"] }

\* the log of the last call on the cleaner
NoCleanerCall ==
  [ op |-> "none", prev |-> "none", backup |-> FALSE, configdir |-> "ok",
    raised |-> FALSE,
    ret |-> FALSE, fs_before |-> << >>, visited |-> << >>,
    info |-> [cache_dirs |-> << >>, cache_files |-> << >>, total_size |-> 0,
              cache_count |-> 0, recommendations |-> << >>],
    success1 |-> FALSE, success2 |-> FALSE, steps |-> << >> ]

InitCleaner ==
  /\ cache \in { <<c, o>> : c \in ConfigDirSamples, o \in OtherDirSamples }
  /\ cache_cleaner = [cache_dirs |-> _find_cache_dirs(cache, "ok").dirs,
                      font_cache_files |-> << >>]
  /\ \E m \in { [disk |-> {"Arial"}, registry |-> {"Arial"}],
                [disk |-> {"Arial", "SimHei"}, registry |-> {"Arial"}] } :
       disk = m.disk /\ registry = m.registry
  /\ rc = DefaultRc
  /\ last = NoCleanerCall
  /\ calls = 0
  /\ installer = NoInstaller
  /\ config = NoConfig

\* cleaner = MatplotlibCacheCleaner(): __init__ sets cache_dirs and
\* font_cache_files; when _find_cache_dirs raises no cleaner is made
Construct ==
  /\ calls < MaxCleanerCalls
  /\ \E configdir \in {"ok", "fails"} :
       \E r \in { _find_cache_dirs(cache, configdir) } :
         /\ cache_cleaner' = IF r.raised THEN cache_cleaner
                             ELSE [cache_dirs |-> r.dirs,
                                   font_cache_files |-> << >>]
         /\ last' = [ NoCleanerCall EXCEPT
                        !.op = "construct",
                        !.prev = last.op,
                        !.configdir = configdir,
                        !.raised = r.raised,
                        !.fs_before = cache ]
  /\ calls' = calls + 1
  /\ UNCHANGED <<registry, disk, cache, rc, installer, config>>

\* cleaner.get_cache_info()
Inspect ==
  /\ calls < MaxCleanerCalls
  /\ \E r \in { get_cache_info(cache, cache_cleaner) } :
       /\ cache' = r.fs
       /\ cache_cleaner' = r.cleaner
       /\ last' = [ NoCleanerCall EXCEPT
                      !.op = "inspect",
                        !.prev = last.op,
                      !.fs_before = cache,
                      !.info = r.info ]
  /\ calls' = calls + 1
  /\ UNCHANGED <<registry, disk, rc, installer, config>>

\* cleaner.clear_font_cache(backup)
Clear ==
  /\ calls < MaxCleanerCalls
  /\ \E backup \in BOOLEAN, same_second \in BOOLEAN :
       \E r \in { clear_font_cache(cache, cache_cleaner.cache_dirs, backup,
                                   same_second) } :
         /\ cache' = r.fs
         /\ last' = [ NoCleanerCall EXCEPT
                        !.op = "clear",
                        !.prev = last.op,
                        !.backup = backup,
                        !.raised = r.raised,
                        !.ret = r.success,
                        !.fs_before = cache,
                        !.visited = r.visited ]
  /\ calls' = calls + 1
  /\ UNCHANGED <<registry, disk, rc, installer, cache_cleaner, config>>

\* cleaner.rebuild_font_cache(force_rebuild=True)
Rebuild ==
  /\ calls < MaxCleanerCalls
  /\ \E outcome \in {"ok", "ok_same_second", "fails"} :
       \E r \in { rebuild_font_cache(registry, disk, cache, outcome) } :
         /\ cache' = r.fs
         /\ registry' = r.registry
         /\ last' = [ NoCleanerCall EXCEPT
                        !.op = "rebuild",
                        !.prev = last.op,
                        !.ret = r.success,
                        !.fs_before = cache ]
  /\ calls' = calls + 1
  /\ UNCHANGED <<disk, rc, installer, cache_cleaner, config>>

\* cleaner.full_reset(backup)
FullReset ==
  /\ calls < MaxCleanerCalls
  /\ \E backup \in BOOLEAN :
       \E env \in [ same_second : BOOLEAN, rebuild : {"ok", "fails"},
                    verify : {"ok", "fails"} ] :
         \E r \in { full_reset(registry, disk, cache, cache_cleaner, backup,
                               env) } :
           /\ cache' = r.fs
           /\ registry' = r.registry
           /\ last' = [ NoCleanerCall EXCEPT
                          !.op = "full_reset",
                        !.prev = last.op,
                          !.backup = backup,
                          !.ret = r.ret,
                          !.fs_before = cache,
                          !.success1 = r.success1,
                          !.success2 = r.success2,
                          !.steps = r.steps ]
  /\ calls' = calls + 1
  /\ UNCHANGED <<disk, rc, installer, cache_cleaner, config>>

NextCleaner ==
  \/ Construct
  \/ Inspect
  \/ Clear
  \/ Rebuild
  \/ FullReset

SpecCleaner == InitCleaner /\ [][NextCleaner]_vars

(***************************************************************************)
(* The same calls on a cleaner whose cache_dirs lists several directories. *)
(* cache_dirs is a public list the methods iterate over; the constructor   *)
(* fills it with at most the configuration directory, so the lists of two  *)
(* directories are those a caller has set.                                 *)
(***************************************************************************)
InitCleanerDirs ==
  /\ cache \in { <<c, o>> : c \in ConfigDirSamples, o \in OtherDirSamples }
  /\ cache_cleaner \in
       { [cache_dirs |-> dirs, font_cache_files |-> << >>] :
           dirs \in { <<ConfigDir>>, <<ConfigDir, 2>>, <<2, ConfigDir>> } }
  /\ disk = {"Arial", "SimHei"}
  /\ registry = {"Arial"}
  /\ rc = DefaultRc
  /\ last = NoCleanerCall
  /\ calls = 0
  /\ installer = NoInstaller
  /\ config = NoConfig

SpecCleanerDirs == InitCleanerDirs /\ [][NextCleaner]_vars

(***************************************************************************)
(* config/config_loader.py: a caller holding a ConfigLoader sets one key   *)
(* of its dictionary and reads keys back                                   *)
(***************************************************************************)
\* segments per dotted key
MaxKeyLen == 3

\* the names a key is made of
Segments == {"control", "pid", "kp"}

RECURSIVE SeqsUpTo(_)
SeqsUpTo(n) ==
  IF n = 0 THEN { << >> }
  ELSE SeqsUpTo(n - 1)
       \cup { Append(q, x) : q \in { p \in SeqsUpTo(n - 1) : Len(p) = n - 1 },
                             x \in Segments }

Keys == SeqsUpTo(MaxKeyLen) \ { << >> }

\* the dictionary at the start: empty, the default, and dictionaries as
\* yaml.safe_load gives them, with a number, a string, a list and a null
\* where the default has sections
ConfigSamples ==
  { Dict(NoItems),
    get_default_config,
    Dict("control" :> Dict(("pid" :> Leaf("float", "1.0"))
                           @@ ("kp" :> Leaf("str", "pid")))),
    Dict(("control" :> Leaf("list", "[0, 0, -9.81]"))
         @@ ("pid" :> NoneValue)) }

\* values a caller sets, defaults a caller passes to get
SetValues == { Leaf("int", "100"), Leaf("str", "hello") }
GetDefaults == { NoneValue, Leaf("int", "42") }

\* the log of the last call on the loader
NoLoaderCall ==
  [ op |-> "none", key |-> << >>, value |-> NoneValue, default |-> NoneValue,
    raised |-> FALSE, exc |-> "none", ret |-> NoneValue,
    config_before |-> Dict(NoItems) ]

InitConfig ==
  /\ config \in ConfigSamples
  /\ registry = {"Arial"}
  /\ disk = {"Arial"}
  /\ cache = CacheDir(1, 0)
  /\ rc = DefaultRc
  /\ last = NoLoaderCall
  /\ calls = 0
  /\ installer = NoInstaller
  /\ cache_cleaner = NoCleaner

\* loader.set(key, value), the first call on the loader
SetKey ==
  /\ last.op = "none"
  /\ \E key \in Keys, value \in SetValues :
       \E r \in { set(config, key, value) } :
         /\ config' = r.config
         /\ last' = [ NoLoaderCall EXCEPT
                        !.op = "set",
                        !.key = key,
                        !.value = value,
                        !.raised = r.raised,
                        !.exc = r.exc,
                        !.config_before = config ]
  /\ calls' = calls + 1
  /\ UNCHANGED <<registry, disk, cache, rc, installer, cache_cleaner>>

\* loader.get(key, default), on the loader as made or after the set
GetKey ==
  /\ last.op \in {"none", "set"}
  /\ \E key \in Keys, default \in GetDefaults :
       \E r \in { get(config, key, default) } :
         /\ config' = r.config
         /\ last' = [ NoLoaderCall EXCEPT
                        !.op = "get",
                        !.key = key,
                        !.default = default,
                        !.raised = r.raised,
                        !.exc = r.exc,
                        !.ret = r.ret,
                        !.config_before = config ]
  /\ calls' = calls + 1
  /\ UNCHANGED <<registry, disk, cache, rc, installer, cache_cleaner>>

NextConfig ==
  \/ SetKey
  \/ GetKey

SpecConfig == InitConfig /\ [][NextConfig]_vars

(***************************************************************************)
(* Properties                                                              *)
(***************************************************************************)
\* the number of times step x occurs in a step list
RECURSIVE Occurrences(_, _)
Occurrences(x, lst) ==
  IF lst = << >> THEN 0
  ELSE (IF Head(lst) = x THEN 1 ELSE 0) + Occurrences(x, Tail(lst))

\* C1: setup_chinese_font called with an explicit font_name that is not in
\* the registry at validation and still not in it after the one refresh
\* fails with ValueError (requested font unavailable), never with
\* RuntimeError (no font available), whatever auto_install and clear_cache.
C1_ExplicitMismatchIsValueError ==
  (last.op = "configure" /\ last.font_arg # NoFont) =>
     /\ last.outcome # "RuntimeError"
     /\ (last.font_arg \notin registry =>
           /\ last.outcome = "ValueError"
           /\ Occurrences("refresh", last.steps) = 1)

\* a call that named SimHei, with both flags set, ended in ValueError
C1_Witness ==
  /\ last.op = "configure"
  /\ last.font_arg = "SimHei"
  /\ last.auto_install /\ last.clear_cache
  /\ last.outcome = "ValueError"
  /\ "SimHei" \notin registry

\* C2: setup_chinese_font called without a font_name never returns (and
\* applies) a family that is not CJK-capable; with no CJK-capable family in
\* the registry it fails with RuntimeError.
C2_NeverResolvesNonCJK ==
  (last.op = "configure" /\ last.font_arg = NoFont /\ last.outcome = "returned")
     => IsChineseFamily(last.ret)

C4_DetectDeterministic ==
  [][ ( /\ last.op = "detect" /\ last'.op = "detect"
        /\ last'.families = last.families )
      => last'.ret = last.ret ]_vars

C6_QuickFixIsCompleteSetup ==
  [][ last'.op = "quick_fix" =>
        /\ last'.outcome = "returned"
        /\ last'.ok = (last'.status = "success")
        /\ \E render \in {"ok", "fails"} :
             \E e \in Envs(State, NoFont, TRUE, TRUE) :
               \E c \in { complete_chinese_font_setup(
                            State, NoFont, DefaultFontSize, TRUE, TRUE,
                            e, render) } :
                 /\ registry' = c.setup.registry
                 /\ disk' = c.setup.disk
                 /\ cache' = c.setup.cache
                 /\ rc' = c.setup.rc
                 /\ last'.steps = c.setup.steps
                 /\ last'.status = c.status
                 /\ last'.ok = (c.status = "success") ]_vars

\* a quick fix that found nothing and reported false
C6_Witness ==
  /\ last.op = "quick_fix"
  /\ ~last.ok
  /\ last.status = "failed"
  /\ InList("acquire", last.steps)

\* C7: in every run of setup_chinese_font, auto_install_chinese_fonts is
\* invoked only if auto_install and clear_font_cache only if clear_cache;
\* without auto_install the font files on disk stay as they are, without
\* clear_cache the cache directory stays as it is.
C7_SideEffectsNeedFlags ==
  [][ last'.op \in {"configure", "complete", "quick_fix"} =>
        /\ InList("acquire", last'.steps) => last'.auto_install
        /\ InList("clear", last'.steps) => last'.clear_cache
        /\ ~last'.auto_install => disk' = disk
        /\ ~last'.clear_cache => cache' = cache ]_vars

\* a run with both flags off that found no font and gave up
C7_Witness ==
  /\ last.op = "configure"
  /\ ~last.auto_install /\ ~last.clear_cache
  /\ last.font_arg = NoFont
  /\ last.outcome = "RuntimeError"
  /\ cache.fontlists = 1

\* C8: after a successful setup_chinese_font(font_size = s) the live
\* configuration has the returned font first in font.sans-serif, sizes s
\* (base, axis label), s+2 (axis title), s-1 (ticks, legend), s+4 (figure
\* title) and axes.unicode_minus false, in basic and deep configuration and
\* after earlier calls.
C8_ConfigurationApplied ==
  (last.op = "configure" /\ last.outcome = "returned") =>
     /\ rc.sans_serif # << >>
     /\ rc.sans_serif[1] = last.ret
     /\ rc.font_size = last.font_size
     /\ rc.axes_labelsize = last.font_size
     /\ rc.axes_titlesize = last.font_size + 2
     /\ rc.xtick_labelsize = last.font_size - 1
     /\ rc.ytick_labelsize = last.font_size - 1
     /\ rc.legend_fontsize = last.font_size - 1
     /\ rc.figure_titlesize = last.font_size + 4
     /\ rc.unicode_minus = FALSE

\* a basic configuration applied after an earlier call had configured
\* another font and size
C8_Witness ==
  /\ last.op = "configure"
  /\ last.outcome = "returned"
  /\ ~last.deep_config
  /\ calls = 2
  /\ rc.sans_serif[1] = "Arial"
  /\ rc.sans_serif[2] = "SimHei"
  /\ rc.font_size = DefaultFontSize + 2

\* C9: every report of diagnose_chinese_display has an overall severity
\* among good, fair, poor, error.
C9_SeverityInRange ==
  last.op = "diagnose" => last.severity \in {"good", "fair", "poor", "error"}

\* the families of PREFERRED_FONTS in the registry
PreferredInRegistry ==
  {PREFERRED_FONTS[i] : i \in DOMAIN PREFERRED_FONTS} \cap registry

\* C10: zero Chinese fonts gives poor; one or two gives fair; a current font
\* outside the Chinese set gives fair or poor, never good; a cache file
\* count above the threshold adds the clear-cache recommendation and leaves
\* severity and issues as they are with an empty cache.
C10_Thresholds ==
  last.op = "diagnose" =>
     LET n    == Cardinality(PreferredInRegistry)
         base == diagnose_chinese_display(registry, rc, CacheDir(0, 0), 0, "ok")
         files == IF last.configdir = "ok" /\ cache.fontlists > 0
                  THEN cache.fontlists + cache.others ELSE 0
     IN  /\ n = 0 => last.severity = "poor"
         /\ n \in 1..2 => last.severity = "fair"
         /\ rc.sans_serif[1] \notin PreferredInRegistry
              => last.severity \in {"fair", "poor"}
         /\ last.severity = base.overall_status
         /\ last.issues = base.issues
         /\ InList("clear_cache", last.recommendations)
              <=> files > CacheFileThreshold

\* a crowded cache directory was flagged on a machine with two Chinese
\* fonts: the severity is fair
C10_Witness ==
  /\ last.op = "diagnose"
  /\ Cardinality(PreferredInRegistry) = 2
  /\ cache.others > CacheFileThreshold - 1
  /\ InList("clear_cache", last.recommendations)
  /\ last.severity = "fair"

(***************************************************************************)
(* Properties of font_installer.py                                         *)
(***************************************************************************)
\* C11: when the scan of the system font directories finds a Chinese font,
\* auto_install_chinese_fonts returns True at once: it runs no
\* package-manager command, downloads nothing, installs nothing and leaves
\* the font files as they were.
C11_PresentFontShortCircuits ==
  (last.op = "auto_install" /\ last.had_font)
    => /\ ~last.raised
       /\ last.ret
       /\ last.trace = << >>
       /\ disk = last.disk_before

C11_Witness ==
  /\ last.op = "auto_install"
  /\ last.had_font
  /\ last.ret
  /\ last.env.update = "ok"
  /\ "SimHei" \in disk

\* the package-manager step of the last call failed
PackageManagerFailed ==
  /\ last.op = "auto_install"
  /\ ~last.had_font
  /\ installer.system = "Linux"
  /\ \/ last.env.update # "ok"
     \/ last.env.install_pkg # "ok"

IsDownload(t) == t[1] = "download"

\* C12: on Linux a failing package-manager step (non-zero exit, or a command
\* that cannot be started) does not make auto_install_chinese_fonts raise:
\* the call goes on to the download fallback and returns a boolean.
C12_PackageManagerFailureSwallowed ==
  PackageManagerFailed
    => /\ ~last.raised
       /\ \E i \in DOMAIN last.trace : IsDownload(last.trace[i])
       /\ last.ret \in BOOLEAN

\* the call reached the download fallback
ReachedFallback ==
  /\ last.op = "auto_install"
  /\ ~last.had_font
  /\ ~last.raised
  /\ ~(installer.system = "Linux" /\ last.env.update = "ok"
         /\ last.env.install_pkg = "ok")

\* key k downloads and installs in the last call's environment
KeySucceeds(k) ==
  /\ last.env.dl[k] = "ok"
  /\ installer.system \in {"Linux", "Windows", "Darwin"}
  /\ last.env.io[k].copy = "ok"
  /\ installer.system = "Darwin" \/ last.env.io[k].refresh = "ok"

\* C13: in the download fallback the keys are tried in the order of
\* FallbackKeys, each downloaded at most once; a key that fails is followed
\* by the next key; the loop stops at the first key that downloads and
\* installs, returning True; False is returned exactly when no key succeeds.
C13_FallbackLoop ==
  ReachedFallback =>
    LET downloads == SelectSeq(last.trace, IsDownload)
        n == Len(downloads)
    IN  /\ n \in 1..Len(FallbackKeys)
        /\ \A i \in 1..n : downloads[i] = <<"download", FallbackKeys[i]>>
        /\ \A i \in 1..(Len(FallbackKeys) - 1) :
             (i <= n /\ ~KeySucceeds(FallbackKeys[i])) => n >= i + 1
        /\ \A i \in 1..n :
             KeySucceeds(FallbackKeys[i])
               => /\ n = i
                  /\ last.ret
                  /\ last.trace[Len(last.trace)] = <<"install", FallbackKeys[i]>>
        /\ last.ret = FALSE
             <=> \A i \in DOMAIN FallbackKeys : ~KeySucceeds(FallbackKeys[i])

C13_Witness ==
  /\ ReachedFallback
  /\ ~KeySucceeds(FallbackKeys[1])
  /\ last.env.dl[FallbackKeys[1]] = "ok"
  /\ KeySucceeds(FallbackKeys[2])
  /\ last.ret
  /\ Len(SelectSeq(last.trace, IsDownload)) = 2

\* C20: install_font_linux, install_font_windows and install_font_macos
\* never raise; when the directory cannot be made or the copy fails they
\* return False; they return True only if the font file was copied into the
\* font directory.
C20_InstallNeverRaises ==
  last.op = "install"
    => /\ ~last.raised
       /\ (last.io.makedirs # "ok" \/ last.io.copy # "ok") => ~last.ret
       /\ last.ret => (last.copied /\ last.font_file \in disk)

C20_Witness ==
  /\ last.op = "install"
  /\ last.routine = "Linux"
  /\ last.io.copy = "PermissionError"
  /\ ~last.ret
  /\ last.font_file \notin disk

(***************************************************************************)
(* Properties of the pipeline's error handling                             *)
(***************************************************************************)
\* C19: setup_chinese_font fails only with RuntimeError (nothing resolved)
\* or ValueError (the named font is unavailable).  An exception of the cache
\* step (the cleaner's constructor included) or of the acquisition is
\* swallowed: the run goes on with detection, respectively with the check
\* that a font was resolved, and with validation.
C19_OnlyTwoFailures ==
  last.op = "configure"
    => /\ last.outcome \in {"returned", "RuntimeError", "ValueError"}
       /\ InList("cleaner_raised", last.steps)
            => IF last.font_arg = NoFont
               THEN InList("detect", last.steps)
               ELSE InList("validate", last.steps)
       /\ InList("acquire_raised", last.steps)
            => /\ last.outcome = "RuntimeError"
               /\ last.font_arg = NoFont
       /\ last.outcome = "ValueError" => InList("validate", last.steps)
       /\ last.outcome = "RuntimeError" => last.font_arg = NoFont

C19_Witness ==
  /\ last.op = "configure"
  /\ last.clear_cache
  /\ InList("cleaner_raised", last.steps)
  /\ last.outcome = "returned"
  /\ InList("apply", last.steps)
  /\ rc.sans_serif[1] = last.ret

(***************************************************************************)
(* Properties of clear_matplotlib_cache.py                                 *)
(***************************************************************************)
\* directory d makes the try of clear_font_cache(backup) fail: it is
\* missing or cannot be listed, its backup sibling is already there, or an
\* entry is to be removed from a read-only directory
DirFails(d, backup) ==
  \/ ~d.exists
  \/ d.mode = "none"
  \/ backup /\ d.backup_of_mtime
  \/ d.mode = "ro" /\ (d.fontlists > 0 \/ d.fontManager \/ d.fontdirs > 0)

\* C14: clear_font_cache goes through every directory of cache_dirs even
\* when an earlier one fails with a permission or OS error: the font-list
\* files of each directory that does not fail are deleted, the call does
\* not raise, and it returns False exactly when some directory failed.
C14_ClearContinues ==
  last.op = "clear" =>
    LET dirs == cache_cleaner.cache_dirs IN
    /\ ~last.raised
    /\ last.visited = dirs
    /\ last.ret = FALSE
         <=> \E k \in DOMAIN dirs : DirFails(last.fs_before[dirs[k]], last.backup)
    /\ \A k \in DOMAIN dirs :
         ~DirFails(last.fs_before[dirs[k]], last.backup)
           => /\ cache[dirs[k]].fontlists = 0
              /\ ~cache[dirs[k]].fontManager

C14_Witness ==
  /\ last.op = "clear"
  /\ Len(cache_cleaner.cache_dirs) = 2
  /\ DirFails(last.fs_before[cache_cleaner.cache_dirs[1]], last.backup)
  /\ ~DirFails(last.fs_before[cache_cleaner.cache_dirs[2]], last.backup)
  /\ last.fs_before[cache_cleaner.cache_dirs[2]].fontlists > 0
  /\ cache[cache_cleaner.cache_dirs[2]].fontlists = 0
  /\ ~last.ret

\* the CacheInfo get_cache_info would return now
CacheInfo == get_cache_info(cache, cache_cleaner).info

NoFontlistIn(info) ==
  \A i \in DOMAIN info.cache_files :
     info.cache_files[i].name # "fontlist-v.json"

\* a step that is a call of op
IsCall(op) == last'.op = op /\ calls' = calls + 1

\* C15 as claimed: after a clear_font_cache the CacheInfo holds no
\* font-list file, and a second clear_font_cache right after the first
\* leaves the CacheInfo as it was, with or without backup.
C15_ClearIdempotent ==
  [][ IsCall("clear")
        => /\ NoFontlistIn(CacheInfo')
           /\ last.op = "clear" => CacheInfo' = CacheInfo ]_vars

\* C15 as amended: after a clear_font_cache that returns True the CacheInfo
\* holds no font-list file, and a second clear_font_cache right after it
\* leaves the CacheInfo as it was, with or without backup.
C15_SuccessfulClearIdempotent ==
  [][ IsCall("clear")
        => /\ last'.ret => NoFontlistIn(CacheInfo')
           /\ (last.op = "clear" /\ last.ret) => CacheInfo' = CacheInfo ]_vars

C15_Witness ==
  /\ last.op = "clear"
  /\ last.prev = "clear"
  /\ last.backup
  /\ last.ret
  /\ cache_cleaner.cache_dirs # << >>
  /\ NoFontlistIn(CacheInfo)
  /\ cache[cache_cleaner.cache_dirs[1]].backups = 2
  /\ get_cache_info(last.fs_before, cache_cleaner).info = CacheInfo

RECURSIVE SumSizes(_)
SumSizes(entries) ==
  IF entries = << >> THEN 0 ELSE Head(entries).size + SumSizes(Tail(entries))

\* C16: get_cache_info changes neither the cache directories nor the
\* cleaner; its cache_count is the number of entries listed and its
\* total_size the sum of their sizes; called twice in a row it returns the
\* same CacheInfo.
C16_InspectReadOnly ==
  [][ IsCall("inspect")
        => /\ cache' = cache
           /\ cache_cleaner' = cache_cleaner
           /\ last'.info.cache_count = Len(last'.info.cache_files)
           /\ last'.info.total_size = SumSizes(last'.info.cache_files)
           /\ last.op = "inspect" => last'.info = last.info ]_vars

C16_Witness ==
  /\ last.op = "inspect"
  /\ last.prev = "inspect"
  /\ last.info.cache_count >= 3
  /\ \E i \in DOMAIN last.info.cache_files : last.info.cache_files[i].is_dir
  /\ last.info.total_size > 0

\* C17: when asking the toolkit for its configuration directory fails,
\* _find_cache_dirs returns the conventional locations that exist and does
\* not raise, so MatplotlibCacheCleaner() succeeds.
C17_FallbackLocations ==
  (last.op = "construct" /\ last.configdir = "fails")
    => /\ ~last.raised
       /\ { cache_cleaner.cache_dirs[k] : k \in DOMAIN cache_cleaner.cache_dirs }
            = { i \in ConventionalDirs : cache[i].exists }

\* C18 as claimed: full_reset goes through inspect, clear, rebuild, verify,
\* in that order and once each, also when the clear or the rebuild fails.
C18_ResetCycle ==
  last.op = "full_reset"
    => last.steps = <<"inspect", "clear", "rebuild", "verify">>

\* C18 as amended: full_reset goes through clear, rebuild, verify, in that
\* order and once each, with no inspection before the clear (the only
\* get_cache_info is the one verify_font_cache makes at its end); a clear
\* that fails is still followed by rebuild and a rebuild that fails by
\* verify.
C18_ResetSteps ==
  last.op = "full_reset"
    => /\ Len(last.steps) \in {3, 4}
       /\ SubSeq(last.steps, 1, 3) = <<"clear", "rebuild", "verify">>
       /\ Len(last.steps) = 4 => last.steps[4] = "inspect"
       /\ ~last.success1 => InList("rebuild", last.steps)
       /\ ~last.success2 => InList("verify", last.steps)

C18_Witness ==
  /\ last.op = "full_reset"
  /\ ~last.success1
  /\ ~last.success2
  /\ InList("verify", last.steps)
  /\ \E i \in DOMAIN cache : cache[i].fontlists > 0

\* C21: detection and verification agree on every registry: a
\* verify_font_cache that read the registry reports a Chinese font exactly
\* when the detect_chinese_font made just before it returned a font.
C21_DetectVerifyAgree ==
  [][ ( /\ last.op = "detect"
        /\ last'.op = "verify" /\ last'.status = "loaded" )
      => (last'.ok <=> last.ret # NoFont) ]_vars

\* one key is a prefix of the other
SharePrefix(k1, k2) ==
  \/ Len(k1) <= Len(k2) /\ SubSeq(k2, 1, Len(k1)) = k1
  \/ Len(k2) <= Len(k1) /\ SubSeq(k1, 1, Len(k2)) = k2

\* C22: after set(key, value), get(key) returns value, whatever the
\* dictionary held before (also when a prefix of the key held a value that
\* is not a mapping), and get of every key that shares no prefix with key
\* returns what it returned before.
C22_SetGetRoundTrip ==
  last.op = "set" =>
     /\ ~last.raised
     /\ get(config, last.key, NoneValue).ret = last.value
     /\ \A k \in Keys :
          ~SharePrefix(k, last.key) =>
             get(config, k, NoneValue).ret
               = get(last.config_before, k, NoneValue).ret

\* every segment of keys is found, each in a mapping
RECURSIVE PathResolves(_, _)
PathResolves(node, keys) ==
  \/ keys = << >>
  \/ /\ node.kind = "dict"
     /\ Head(keys) \in DOMAIN node.items
     /\ PathResolves(node.items[Head(keys)], Tail(keys))

\* C23: get(key, default) returns the default, does not raise and leaves
\* the dictionary as it was, whenever a segment of the key is missing or a
\* value on the way is not a mapping.
C23_GetDefault ==
  (last.op = "get" /\ ~PathResolves(last.config_before, last.key)) =>
     /\ ~last.raised
     /\ last.ret = last.default
     /\ config = last.config_before

\* a get through a number: 'control.pid.kp' where control.pid is 1.0
C23_Witness ==
  /\ last.op = "get"
  /\ last.key = <<"control", "pid", "kp">>
  /\ "control" \in DOMAIN last.config_before.items
  /\ last.config_before.items["control"].kind = "dict"
  /\ "pid" \in DOMAIN last.config_before.items["control"].items
  /\ last.config_before.items["control"].items["pid"].kind = "float"
  /\ last.default = Leaf("int", "42")
  /\ last.ret = Leaf("int", "42")

\* C24: with auto_install, when the first detection finds no font and the
\* acquisition reports success (a Chinese font file is on disk), the
\* detection made after it resolves a font and setup_chinese_font returns
\* it, also when the registry shows the disk as of its last rebuild.
C24_AcquiredFontResolved ==
  ( /\ last.op = "configure"
    /\ last.font_arg = NoFont
    /\ last.auto_install
    /\ InList("acquire", last.steps)
    /\ Occurrences("detect", last.steps) = 2
    /\ \E f \in disk : font_file_is_chinese(f) )
  => (last.outcome = "returned" /\ last.ret # NoFont)

\* C25: clear_font_cache deletes only the entries it matches by name:
\* font-list files, the font-manager cache file and the font
\* subdirectories that are directories.  Every other entry of a cache
\* directory (a regular file named like a font subdirectory included), and
\* everything outside the cache directories but a new backup, stays.
C25_ClearFrame ==
  [][ IsCall("clear") =>
        /\ disk' = disk
        /\ registry' = registry
        /\ rc' = rc
        /\ config' = config
        /\ \A i \in DOMAIN cache :
             /\ cache'[i].others = cache[i].others
             /\ cache'[i].font_named_files = cache[i].font_named_files
             /\ cache'[i].exists = cache[i].exists
             /\ cache'[i].mode = cache[i].mode
             /\ cache'[i].backups \in {cache[i].backups, cache[i].backups + 1}
             /\ ~InList(i, cache_cleaner.cache_dirs) => cache'[i] = cache[i] ]_vars

\* a clear that emptied a directory of its font-list files, font-manager
\* file and font subdirectory and left the two other entries
C25_Witness ==
  /\ last.op = "clear"
  /\ last.ret
  /\ last.fs_before[ConfigDir].fontlists > 0
  /\ last.fs_before[ConfigDir].fontdirs > 0
  /\ last.fs_before[ConfigDir].fontManager
  /\ cache[ConfigDir].fontlists = 0
  /\ cache[ConfigDir].fontdirs = 0
  /\ ~cache[ConfigDir].fontManager
  /\ cache[ConfigDir].font_named_files = 1
  /\ cache[ConfigDir].others = 1

\* C26: in clear_font_cache(backup=True) the copy of a cache directory is
\* made before anything in it is deleted, and the deletion does not depend
\* on it: the font-list files of a readable and writable directory are
\* deleted whether or not the copy succeeded.
C26_BackupBestEffort ==
  (last.op = "clear" /\ last.backup) =>
     \A n \in DOMAIN last.visited :
        LET i      == last.visited[n]
            before == last.fs_before[i]
        IN  /\ cache[i].fontlists < before.fontlists
                 => cache[i].backups = before.backups + 1
            /\ (before.exists /\ before.mode = "rw")
                 => cache[i].fontlists = 0

\* C29: a clear_font_cache(backup=True) on readable and writable cache
\* directories that an earlier clear_font_cache(backup=True) has backed up
\* returns True, also when the directory was not modified in between.
C29_RepeatedBackupClearSucceeds ==
  ( /\ last.op = "clear"
    /\ last.backup
    /\ last.visited # << >>
    /\ \A n \in DOMAIN last.visited :
          LET before == last.fs_before[last.visited[n]]
          IN  before.exists /\ before.mode = "rw" /\ before.backups > 0 )
  => last.ret

\* C27: when setup_chinese_font fails, with RuntimeError or ValueError, the
\* live configuration object is exactly as before the call; it is written
\* only by a call that returns, whose font was validated against the
\* available families.
C27_FailureLeavesConfiguration ==
  [][ (last'.op = "configure" /\ calls' = calls + 1) =>
        /\ last'.outcome \in {"RuntimeError", "ValueError"} => rc' = rc
        /\ rc' # rc => ( /\ last'.outcome = "returned"
                         /\ InList(last'.ret, last'.available) ) ]_vars

\* a configured process in which a later call for an unavailable font
\* failed: the earlier configuration is still there
C27_Witness ==
  /\ last.op = "configure"
  /\ last.outcome = "ValueError"
  /\ last.font_arg = "SimHei"
  /\ calls = 2
  /\ rc # DefaultRc

\* C28: whenever setup_chinese_font returns a font name, the name is in the
\* list of available families as last enumerated in that call, whether it
\* was named by the caller, detected, or detected after acquisition.
C28_ReturnedFontAvailable ==
  (last.op = "configure" /\ last.outcome = "returned") =>
     /\ last.ret # NoFont
     /\ InList(last.ret, last.available)

\* a font named by the caller that the registry shows only after the
\* refresh
C28_Witness ==
  /\ last.op = "configure"
  /\ last.outcome = "returned"
  /\ last.font_arg = "SimHei"
  /\ last.ret = "SimHei"
  /\ InList("refresh", last.steps)
  /\ InList("SimHei", last.available)

\* C30: install_font_linux copies the font file into the font directory
\* before it runs fc-cache and does not undo the copy: when fc-cache fails
\* it returns False and the font file is in the font directory.
C30_RefreshFailureKeepsCopy ==
  ( /\ last.op = "install"
    /\ last.routine = "Linux"
    /\ last.io.makedirs = "ok"
    /\ last.io.copy = "ok"
    /\ last.io.refresh # "ok" )
  => /\ ~last.raised
     /\ ~last.ret
     /\ last.copied
     /\ last.font_file \in disk

\* fc-cache exits with an error after SimHei was copied
C30_Witness ==
  /\ last.op = "install"
  /\ last.routine = "Linux"
  /\ last.io.refresh = "CalledProcessError"
  /\ last.font_file = "SimHei"
  /\ "SimHei" \notin last.disk_before
  /\ "SimHei" \in disk
  /\ ~last.ret

====
